---- MODULE Spec2Model ----
(***************************************************************************)
(* Model of the artist-timeline server (src/server.js): the classification *)
(* heuristics over loosely typed activity records, the 90-day sliding      *)
(* window peak, and the derivation of milestones and totals in             *)
(* contract-set mode and in wallet mode.                                   *)
(*                                                                         *)
(* Model time is counted in hours since the epoch (the source counts       *)
(* milliseconds); every duration of the source is a whole number of hours. *)
(***************************************************************************)
EXTENDS Integers, Sequences, FiniteSets, TLC

VARIABLES
    event,      \* classifier harness: the raw record handed to a classifier
    ret,        \* classifier harness: the function applied and its return value
    sales,      \* peak scan: the argument of buildThreeMonthPeak
    sorted,     \* peak scan: the dated, timestamp-sorted events
    left,       \* peak scan: left pointer
    right,      \* peak scan: right pointer (the for-loop index)
    best,       \* peak scan: best window so far
    ppc,        \* peak scan: position in buildThreeMonthPeak
    peak,       \* peak scan: the returned value
    req,        \* request: mode, contracts and wallet
    up,         \* request: rows returned by the (successful) upstream fetches
    pc,         \* request: position of the handler
    milestoneItems, \* request: the milestone items in the order they were pushed
    response,   \* request: status and payload written by the handler
    walletAddr, \* request: the handler's wallet, the address it derives for (null if none)
    resolver,   \* resolveEnsName: the endpoints asked so far with their answers
    tasks,      \* the upstream retrievals of the request, by task id
    calls       \* the kinds of outbound calls issued so far

vars == <<event, ret, sales, sorted, left, right, best, ppc, peak, req, up, pc,
          milestoneItems, response, walletAddr, resolver, tasks, calls>>

(***************************************************************************)
(* Bounds of the model.                                                    *)
(***************************************************************************)
MaxUsd == 2
MaxSales == 4
MaxRows == 2
MaxMintRows == 1
MaxWalletSales == 3
MaxTokenId == 1
MaxPageRows == 2
MaxPages == 2

(***************************************************************************)
(* JavaScript values.  Every value is a record of the same shape so that   *)
(* any two values can be compared.                                         *)
(*   undef / null   the two absent values                                  *)
(*   num n          a finite number          nan    NaN                    *)
(*   str s          a non-numeric string     numstr a numeric string "n"   *)
(*   iso n          an ISO-8601 date string  date   a valid Date object    *)
(*   bool           true (n = 1) / false (n = 0)                           *)
(***************************************************************************)
UNDEF == [t |-> "undef", n |-> 0, s |-> ""]
NULL == [t |-> "null", n |-> 0, s |-> ""]
NaN == [t |-> "nan", n |-> 0, s |-> ""]
Num(n) == [t |-> "num", n |-> n, s |-> ""]
Str(s) == [t |-> "str", n |-> 0, s |-> s]
NumStr(n) == [t |-> "numstr", n |-> n, s |-> ""]
Iso(n) == [t |-> "iso", n |-> n, s |-> ""]
DateObj(n) == [t |-> "date", n |-> n, s |-> ""]
Bool(b) == [t |-> "bool", n |-> IF b THEN 1 ELSE 0, s |-> ""]

\* v == null (true of null and undefined)
IsNullish(v) == v.t \in {"undef", "null"}

\* ToBoolean
Truthy(v) ==
    CASE v.t \in {"undef", "null", "nan"} -> FALSE
      [] v.t \in {"num", "bool"} -> v.n # 0
      [] v.t = "str" -> v.s # ""
      [] OTHER -> TRUE

\* a || b
JsOr(a, b) == IF Truthy(a) THEN a ELSE b

\* Number(v)
Number(v) ==
    CASE v.t = "undef" -> NaN
      [] v.t = "null" -> Num(0)
      [] v.t \in {"num", "numstr", "bool", "date"} -> Num(v.n)
      [] v.t = "str" -> IF v.s = "" THEN Num(0) ELSE NaN
      [] OTHER -> NaN

\* Number.isFinite(v)
IsFinite(v) == v.t = "num"

\* String(v)
String(v) ==
    CASE v.t \in {"num", "numstr"} -> NumStr(v.n)
      [] v.t = "undef" -> Str("undefined")
      [] v.t = "null" -> Str("null")
      [] v.t = "nan" -> Str("NaN")
      [] v.t = "bool" -> Str(IF v.n = 1 THEN "true" ELSE "false")
      [] OTHER -> v

\* A raw record is a function from the keys it carries to values; a nested
\* property a.b is the key "a.b".  obj?.[key] of a missing key is undefined.
EmptyObj == [k \in {} |-> UNDEF]
Get(obj, key) == IF key \in DOMAIN obj THEN obj[key] ELSE UNDEF

RECURSIVE firstPresent(_, _)
firstPresent(obj, keys) ==
    IF keys = <<>> THEN NULL
    ELSE IF ~IsNullish(Get(obj, Head(keys))) THEN Get(obj, Head(keys))
    ELSE firstPresent(obj, Tail(keys))

parseDate(value) ==
    IF IsNullish(value) THEN NULL
    ELSE CASE value.t \in {"iso", "date", "num"} -> DateObj(value.n)
           [] value.t = "bool" -> DateObj(value.n)
           [] OTHER -> NULL

TimestampKeys == <<"block_timestamp", "timestamp", "created_at", "activity_timestamp", "event_timestamp">>

eventTimestamp(ev) == parseDate(firstPresent(ev, TimestampKeys))

UsdKeys == <<"usd_value", "amount_usd", "usd_amount", "price_usd", "sale_usd", "total_usd">>
NestedUsdKeys == <<"currency_price.usd", "price.usd", "value.usd">>

usdValue(ev) ==
    LET raw == firstPresent(ev, UsdKeys)
        asNum == Number(raw)
        maybeNested == Number(JsOr(JsOr(Get(ev, "currency_price.usd"), Get(ev, "price.usd")),
                                   Get(ev, "value.usd")))
    IN  IF IsFinite(asNum) THEN asNum
        ELSE IF IsFinite(maybeNested) THEN maybeNested ELSE NULL

TypeKeys == <<"activity_type", "type", "event_type", "transaction_type", "operation">>

\* The type labels of the model, as upstream spells them.
Labels == {"sale", "Sale", "wholesale", "nft_trade", "listing_created", "mint", "nft_mint",
           "NFT_MINT", "transfer", "listing_sale", "mint_trade", "mint_listing"}

\* String.prototype.toLowerCase over the labels of the model
ToLowerCase(s) ==
    CASE s = "Sale" -> "sale"
      [] s = "NFT_MINT" -> "nft_mint"
      [] OTHER -> s

\* String.prototype.includes over the (lower-cased) labels of the model:
\* which of the words the classifiers look for occur in s as substrings.
Includes(s, word) ==
    word \in (CASE s = "sale" -> {"sale"}
                [] s = "wholesale" -> {"sale"}
                [] s = "nft_trade" -> {"nft", "trade"}
                [] s = "listing_created" -> {"listing"}
                [] s = "mint" -> {"mint"}
                [] s = "nft_mint" -> {"nft", "mint"}
                [] s = "listing_sale" -> {"listing", "sale"}
                [] s = "mint_trade" -> {"mint", "trade"}
                [] s = "mint_listing" -> {"mint", "listing"}
                [] OTHER -> {})

\* String(firstPresent(event, [...]) || "").toLowerCase()
typeLabel(ev, keys) ==
    LET v == String(JsOr(firstPresent(ev, keys), Str("")))
    IN  IF v.t = "str" THEN ToLowerCase(v.s) ELSE "#"

\* mutant of isSale: the 'listing' rule is tried before the 'sale' rule
isSale_ListingFirst(ev) ==
    LET type == typeLabel(ev, TypeKeys)
    IN  IF Includes(type, "listing") THEN FALSE
        ELSE IF Includes(type, "sale") THEN TRUE
        ELSE IF Includes(type, "trade") THEN TRUE
        ELSE IF Includes(type, "mint") THEN FALSE
        ELSE ~IsNullish(usdValue(ev))

isSale(ev) ==
    LET type == typeLabel(ev, TypeKeys)
    IN  IF Includes(type, "sale") THEN TRUE
        ELSE IF Includes(type, "trade") THEN TRUE
        ELSE IF Includes(type, "listing") THEN FALSE
        ELSE IF Includes(type, "mint") THEN FALSE
        ELSE ~IsNullish(usdValue(ev))

TokenIdKeys == <<"token_id", "tokenId", "nft_id">>

isMint(ev) ==
    LET type == typeLabel(ev, TypeKeys)
        tokenId == JsOr(firstPresent(ev, TokenIdKeys), Get(ev, "asset.token_id"))
    IN  IF ~Includes(type, "mint") THEN FALSE
        ELSE ~IsNullish(tokenId) \/ Includes(type, "nft")


(***************************************************************************)
(* Array.prototype.sort with a comparator that subtracts numeric keys:     *)
(* ascending by key, stable.  key[i] is the key of seq[i].                 *)
(***************************************************************************)
SortRank(key, i) ==
    Cardinality({j \in DOMAIN key : key[j] < key[i] \/ (key[j] = key[i] /\ j < i)}) + 1

StableSortBy(seq, key) ==
    [p \in 1..Len(seq) |-> seq[CHOOSE i \in 1..Len(seq) : SortRank(key, i) = p]]

\* Array.prototype.filter
RECURSIVE FilterSeq(_, _)
FilterSeq(seq, keep) ==
    IF seq = <<>> THEN <<>>
    ELSE IF keep[1] THEN <<Head(seq)>> \o FilterSeq(Tail(seq), Tail(keep))
    ELSE FilterSeq(Tail(seq), Tail(keep))

(***************************************************************************)
(* buildThreeMonthPeak, as a machine over the scan state                   *)
(*   [sorted, left, right, best, ppc, peak].                               *)
(* left and right hold the source's 0-based values.                        *)
(***************************************************************************)
THREE_MONTHS_MS == 90 * 24

NoBest == [count |-> 0, start |-> NULL, end |-> NULL]

\* sales.map(attach _ts).filter(has _ts).sort(by _ts)
PeakSorted(in) ==
    LET withTs == [i \in 1..Len(in) |-> ("_ts" :> eventTimestamp(in[i])) @@ in[i]]
        dated == FilterSeq(withTs, [i \in 1..Len(in) |-> Truthy(withTs[i]["_ts"])])
    IN  StableSortBy(dated, [i \in 1..Len(dated) |-> dated[i]["_ts"].n])

\* entry of the function up to the head of the for loop
PeakEnter(in) ==
    IF Len(in) = 0
    THEN [sorted |-> <<>>, left |-> 0, right |-> 0, best |-> NoBest, ppc |-> "done", peak |-> NULL]
    ELSE [sorted |-> PeakSorted(in), left |-> 0, right |-> 0, best |-> NoBest,
          ppc |-> "scan", peak |-> UNDEF]

\* the for-loop condition
PeakMore(ps) == ps.right < Len(ps.sorted)

\* mutant of the while-loop condition: a gap of exactly 90 days is too wide
PeakTooWide_Exclusive(ps) ==
    ps.sorted[ps.right + 1]["_ts"].n - ps.sorted[ps.left + 1]["_ts"].n >= THREE_MONTHS_MS

\* the while-loop condition
PeakTooWide(ps) ==
    ps.sorted[ps.right + 1]["_ts"].n - ps.sorted[ps.left + 1]["_ts"].n > THREE_MONTHS_MS

\* mutant of the scan: a window that only equals the best count replaces it
PeakStep_LastMaximal(ps) ==
    IF ~PeakMore(ps)
    THEN [ps EXCEPT !.ppc = "done", !.peak = IF ps.best.count # 0 THEN ps.best ELSE NULL]
    ELSE IF PeakTooWide(ps)
    THEN [ps EXCEPT !.left = ps.left + 1]
    ELSE LET count == ps.right - ps.left + 1
         IN  [ps EXCEPT !.right = ps.right + 1,
                        !.best = IF count >= ps.best.count
                                 THEN [count |-> count,
                                       start |-> ps.sorted[ps.left + 1]["_ts"],
                                       end |-> ps.sorted[ps.right + 1]["_ts"]]
                                 ELSE ps.best]

\* mutant of the scan: the start of the window is taken from the first event
PeakStep_StartAtFirst(ps) ==
    IF ~PeakMore(ps)
    THEN [ps EXCEPT !.ppc = "done", !.peak = IF ps.best.count # 0 THEN ps.best ELSE NULL]
    ELSE IF PeakTooWide(ps)
    THEN [ps EXCEPT !.left = ps.left + 1]
    ELSE LET count == ps.right - ps.left + 1
         IN  [ps EXCEPT !.right = ps.right + 1,
                        !.best = IF count > ps.best.count
                                 THEN [count |-> count,
                                       start |-> ps.sorted[1]["_ts"],
                                       end |-> ps.sorted[ps.right + 1]["_ts"]]
                                 ELSE ps.best]

\* mutant of the scan: the left pointer starts over for every right position
PeakStep_RescanLeft(ps) ==
    IF ~PeakMore(ps)
    THEN [ps EXCEPT !.ppc = "done", !.peak = IF ps.best.count # 0 THEN ps.best ELSE NULL]
    ELSE IF PeakTooWide(ps)
    THEN [ps EXCEPT !.left = ps.left + 1]
    ELSE LET count == ps.right - ps.left + 1
         IN  [ps EXCEPT !.right = ps.right + 1, !.left = 0,
                        !.best = IF count > ps.best.count
                                 THEN [count |-> count,
                                       start |-> ps.sorted[ps.left + 1]["_ts"],
                                       end |-> ps.sorted[ps.right + 1]["_ts"]]
                                 ELSE ps.best]

\* one step of the scan: leave the loop, advance left, or count and advance right
PeakStep(ps) ==
    IF ~PeakMore(ps)
    THEN [ps EXCEPT !.ppc = "done", !.peak = IF ps.best.count # 0 THEN ps.best ELSE NULL]
    ELSE IF PeakTooWide(ps)
    THEN [ps EXCEPT !.left = ps.left + 1]
    ELSE LET count == ps.right - ps.left + 1
         IN  [ps EXCEPT !.right = ps.right + 1,
                        !.best = IF count > ps.best.count
                                 THEN [count |-> count,
                                       start |-> ps.sorted[ps.left + 1]["_ts"],
                                       end |-> ps.sorted[ps.right + 1]["_ts"]]
                                 ELSE ps.best]

RECURSIVE PeakRun(_)
PeakRun(ps) == IF ps.ppc = "done" THEN ps ELSE PeakRun(PeakStep(ps))

buildThreeMonthPeak(in) == PeakRun(PeakEnter(in)).peak

(***************************************************************************)
(* Addresses, token keys, labels and formatting.                           *)
(*                                                                         *)
(* The address strings of the model stand for 40-digit hex addresses:      *)
(* "0xaaa", "0xbbb" (contracts), "0xwww" (the wallet), "0xooo" (another    *)
(* account); "0xAAA" is "0xaaa" spelled in upper case and "0x12" is        *)
(* malformed.                                                              *)
(***************************************************************************)
HexAddresses == {"0xaaa", "0xbbb", "0xwww", "0xooo"}

\* String.prototype.trim().toLowerCase() over the address strings of the model
LowerAddress(s) ==
    CASE s = "0xAAA" -> "0xaaa"
      [] s = "0xWWW" -> "0xwww"
      [] s = "Artist.ETH" -> "artist.eth"
      [] OTHER -> s

isHexAddress(s) == LowerAddress(s) \in HexAddresses

normalizeAddress(value) ==
    IF ~Truthy(value) THEN NULL
    ELSE LET str == String(value)
             lowered == IF str.t = "str" THEN LowerAddress(str.s) ELSE "#"
         IN  IF isHexAddress(lowered) THEN Str(lowered) ELSE NULL

ContractKeys == <<"contract_address", "token_address", "collection_address", "nft_address">>

contractAddressFromEvent(ev) ==
    normalizeAddress(JsOr(firstPresent(ev, ContractKeys), Get(ev, "asset.token_address")))

tokenIdFromEvent(ev) ==
    LET id == JsOr(firstPresent(ev, TokenIdKeys), Get(ev, "asset.token_id"))
    IN  IF IsNullish(id) THEN NULL ELSE String(id)

\* `${contract}:${tokenId}`: the token ids of the model are numbers and
\* numeric strings, so the key is the pair of the address and the number.
tokenKeyFromEvent(ev) ==
    LET contract == contractAddressFromEvent(ev)
        tokenId == tokenIdFromEvent(ev)
    IN  IF ~Truthy(contract) \/ IsNullish(tokenId) THEN NULL
        ELSE [t |-> "tokenkey", n |-> tokenId.n, s |-> contract.s]

addressFromEvent(ev, keys) ==
    normalizeAddress(
        JsOr(JsOr(JsOr(JsOr(firstPresent(ev, keys), Get(ev, "asset.from_address")),
                       Get(ev, "asset.to_address")),
                  Get(ev, "sender")),
             Get(ev, "recipient")))

\* the text of a label or detail is the sequence of its parts
tokenLabel(ev) ==
    LET tokenId == JsOr(JsOr(firstPresent(ev, TokenIdKeys), Get(ev, "asset.token_id")), NULL)
        collection == JsOr(JsOr(firstPresent(ev, <<"collection_name", "contract_name", "name">>),
                                Get(ev, "asset.name")), NULL)
    IN  IF Truthy(collection) /\ ~IsNullish(tokenId) THEN <<collection, Str(" #"), tokenId>>
        ELSE IF ~IsNullish(tokenId) THEN <<Str("Token #"), tokenId>>
        ELSE IF Truthy(collection) THEN <<String(collection)>>
        ELSE <<Str("Artwork")>>

\* Intl currency format without fraction digits; the amounts of the model are whole
formatUsd(value) ==
    IF ~IsFinite(value) THEN Str("n/a") ELSE [t |-> "usd", n |-> value.n, s |-> "$"]

\* Date.prototype.toISOString
toISOString(d) == Iso(d.n)

\* Date.prototype.toLocaleDateString("en-US"), for a server running in UTC
toLocaleDateString(d) == [t |-> "day", n |-> d.n \div 24, s |-> ""]

CreationKeys == <<"created_at", "contract_created_at", "creation_timestamp", "deployed_at",
                  "first_mint_at", "first_seen_at">>

creationDate(contractRow) == parseDate(firstPresent(contractRow, CreationKeys))

\* Array.prototype.find over the contract rows; EmptyObj stands for undefined,
\* every property of which reads as undefined through ?.
FindRow(rows, hit) ==
    IF \E i \in 1..Len(rows) : hit[i]
    THEN rows[CHOOSE i \in 1..Len(rows) : hit[i] /\ \A j \in 1..(i - 1) : ~hit[j]]
    ELSE EmptyObj

\* Array.prototype.flat over a sequence of sequences
RECURSIVE Flat(_)
Flat(seqs) == IF seqs = <<>> THEN <<>> ELSE Head(seqs) \o Flat(Tail(seqs))

\* mutant of the ordering: the items are filtered but left in push order
OrderMilestones_Unsorted(items) ==
    FilterSeq(items, [i \in 1..Len(items) |-> Truthy(items[i].date)])

\* milestoneItems.filter((item) => item.date).sort(by new Date(item.date))
OrderMilestones(items) ==
    LET dated == FilterSeq(items, [i \in 1..Len(items) |-> Truthy(items[i].date)])
    IN  StableSortBy(dated, [i \in 1..Len(dated) |-> parseDate(dated[i].date).n])

(***************************************************************************)
(* buildMilestones (contract-set mode), from the rows the three fetches    *)
(* returned to the end of the function.  The value is                      *)
(*   [threw |-> FALSE, value |-> payload]  or  [threw |-> TRUE, error],    *)
(* with the milestoneItems array as it stood before the sort in items.     *)
(***************************************************************************)
\* the { event, ts, usd } items with a timestamp, sorted by time
DatedItems(events) ==
    LET items == [i \in 1..Len(events) |->
                    [event |-> events[i], ts |-> eventTimestamp(events[i]),
                     usd |-> usdValue(events[i])]]
        dated == FilterSeq(items, [i \in 1..Len(items) |-> Truthy(items[i].ts)])
    IN  StableSortBy(dated, [i \in 1..Len(dated) |-> dated[i].ts.n])

\* the "Smart Contract Created" item of one contract, if its row has a date
ContractCreatedItem(contract, contractRows) ==
    LET row == FindRow(contractRows,
                   [i \in 1..Len(contractRows) |->
                       LET rowAddress == String(JsOr(firstPresent(contractRows[i],
                                                 <<"contract_address", "address">>), Str("")))
                       IN  rowAddress.t = "str" /\ LowerAddress(rowAddress.s) = contract])
        timestamp == creationDate(row)
        label == String(JsOr(firstPresent(row, <<"collection_name", "name", "contract_name">>),
                             Str(contract)))
    IN  IF ~Truthy(timestamp) THEN <<>>
        ELSE <<[id |-> <<Str("contract-"), Str(contract)>>, date |-> toISOString(timestamp),
                title |-> "Smart Contract Created", detail |-> <<label>>, kind |-> "contract"]>>

SaleItem(id, title, item) ==
    [id |-> <<Str(id)>>, date |-> toISOString(item.ts), title |-> title,
     detail |-> tokenLabel(item.event) \o <<Str(" sold for "), formatUsd(item.usd)>>,
     kind |-> "sale"]

\* the items pushed when salesWithDate is not empty
SaleMilestones(salesWithDate) ==
    LET n == Len(salesWithDate)
        finite == FilterSeq(salesWithDate, [i \in 1..n |-> IsFinite(salesWithDate[i].usd)])
        byUsd == StableSortBy(finite, [i \in 1..Len(finite) |-> 0 - finite[i].usd.n])
        pk == buildThreeMonthPeak([i \in 1..n |-> salesWithDate[i].event])
    IN  <<SaleItem("first-sale", "First Sale", salesWithDate[1])>>
          \o (IF Len(byUsd) > 0 THEN <<SaleItem("biggest-sale", "Biggest Sale", byUsd[1])>> ELSE <<>>)
          \o <<SaleItem("recent-sale", "Most Recent Sale", salesWithDate[n])>>
          \o (IF pk # NULL
              THEN <<[id |-> <<Str("peak-quarter")>>, date |-> toISOString(pk.start),
                      title |-> "Most Art Sold (3-Month Peak)",
                      detail |-> <<Num(pk.count), Str(" pieces sold between "),
                                   toLocaleDateString(pk.start), Str(" and "),
                                   toLocaleDateString(pk.end)>>,
                      kind |-> "volume"]>>
              ELSE <<>>)

\* The names bound in the scope of buildMilestones: its parameters and its
\* const declarations.  mintedTokenKeys is declared in buildWalletMilestones only.
BuildMilestonesScope ==
    {"chain", "contracts", "artist", "mintRows", "saleRows", "contractRows", "mintEvents",
     "saleEvents", "milestoneItems", "genesisMint", "salesWithDate", "ordered",
     "soldCreatedCount", "soldBoughtCount"}

buildMilestones(chain, contracts, artist, mintRows, saleRows, contractRows) ==
    LET mintEvents == FilterSeq(mintRows, [i \in 1..Len(mintRows) |-> isMint(mintRows[i])])
        saleEvents == FilterSeq(saleRows, [i \in 1..Len(saleRows) |-> isSale(saleRows[i])])
        datedMints == DatedItems(mintEvents)
        genesis ==
            IF Len(datedMints) > 0
            THEN <<[id |-> <<Str("genesis-mint")>>, date |-> toISOString(datedMints[1].ts),
                    title |-> "Genesis Mint",
                    detail |-> tokenLabel(datedMints[1].event) \o <<Str(" minted")>>,
                    kind |-> "mint"]>>
            ELSE <<>>
        created == Flat([i \in 1..Len(contracts) |-> ContractCreatedItem(contracts[i], contractRows)])
        salesWithDate == DatedItems(saleEvents)
        items ==
            genesis \o created
                \o (IF Len(salesWithDate) > 0 THEN SaleMilestones(salesWithDate) ELSE <<>>)
        ordered == OrderMilestones(items)
    IN  \* salesWithDate.filter((sale) => mintedTokenKeys.has(...)): the callback
        \* runs once per dated sale and reads a name that is not in scope; with
        \* no dated sale it never runs and both counts are 0
        IF Len(salesWithDate) > 0 /\ "mintedTokenKeys" \notin BuildMilestonesScope
        THEN [threw |-> TRUE, error |-> "mintedTokenKeys is not defined", items |-> items]
        ELSE [threw |-> FALSE, items |-> items,
              value |-> [artist |-> artist, chain |-> chain, contracts |-> contracts,
                         totals |-> [mintCount |-> Len(mintEvents), saleCount |-> Len(saleEvents),
                                     soldCreatedCount |-> 0, soldBoughtCount |-> 0],
                         milestones |-> ordered]]

(***************************************************************************)
(* buildWalletMilestones (wallet mode).  Now is the value of Date.now(): a *)
(* request served at 06:00 UTC of day 400.                                 *)
(***************************************************************************)
RECENT_WINDOW_DAYS == 30
Now == 400 * 24 + 6
windowStart == DateObj(Now - RECENT_WINDOW_DAYS * 24)

\* an array value of the model holds at most one element, kept in s
ArrayOf(s) == [t |-> "arr", n |-> 1, s |-> s]
ArrayIncludes(v, x) == v.t = "arr" /\ v.n = 1 /\ v.s = x

InRecentWindow(ev) ==
    LET ts == eventTimestamp(ev)
    IN  Truthy(ts) /\ ~(ts.n < windowStart.n)

SenderKeys == <<"from_address", "seller_address", "maker">>
RecipientKeys == <<"to_address", "buyer_address", "taker">>

\* the predicate of the saleEvents filter
IsWalletSale(ev, walletLc) ==
    LET from == addressFromEvent(ev, SenderKeys)
        hasTradeSignal ==
            \/ Includes(typeLabel(ev, TypeKeys), "trade")
            \/ Includes(typeLabel(ev, TypeKeys), "sale")
            \/ ArrayIncludes(Get(ev, "_tx_activity_types"), "nft_trade")
        tokenKey == tokenKeyFromEvent(ev)
    IN  IF ~InRecentWindow(ev) THEN FALSE
        ELSE IF from # Str(walletLc) THEN FALSE
        ELSE hasTradeSignal /\ Truthy(tokenKey)

\* [...new Set(seq)]: the distinct elements in first-seen order
RECURSIVE Distinct(_)
Distinct(seq) ==
    IF seq = <<>> THEN <<>>
    ELSE LET init == Distinct(SubSeq(seq, 1, Len(seq) - 1))
             last == seq[Len(seq)]
         IN  IF \E i \in 1..Len(init) : init[i] = last THEN init ELSE Append(init, last)

\* mutant of the derived contracts: the rows of every date count
DerivedContracts_AnyDate(activityRows) ==
    LET addrs == [i \in 1..Len(activityRows) |-> contractAddressFromEvent(activityRows[i])]
        found == FilterSeq(addrs, [i \in 1..Len(addrs) |-> Truthy(addrs[i])])
    IN  Distinct([i \in 1..Len(found) |-> found[i].s])

\* the contract addresses of the in-window rows
DerivedContracts(activityRows) ==
    LET inWindow == FilterSeq(activityRows,
                        [i \in 1..Len(activityRows) |-> InRecentWindow(activityRows[i])])
        addrs == [i \in 1..Len(inWindow) |-> contractAddressFromEvent(inWindow[i])]
        found == FilterSeq(addrs, [i \in 1..Len(addrs) |-> Truthy(addrs[i])])
    IN  Distinct([i \in 1..Len(found) |-> found[i].s])

\* mutant of the minted-token-key set: only mints inside the recent window count
MintedTokenKeys_WindowOnly(activityRows) ==
    {tokenKeyFromEvent(activityRows[i]) :
        i \in {j \in 1..Len(activityRows) :
                  /\ isMint(activityRows[j]) /\ InRecentWindow(activityRows[j])
                  /\ Truthy(tokenKeyFromEvent(activityRows[j]))}}

\* new Set(activityRows.filter(isMint).map(tokenKeyFromEvent).filter(Boolean))
MintedTokenKeys(activityRows) ==
    {tokenKeyFromEvent(activityRows[i]) :
        i \in {j \in 1..Len(activityRows) :
                  isMint(activityRows[j]) /\ Truthy(tokenKeyFromEvent(activityRows[j]))}}

\* the "New Smart Contract Launched" item of one derived contract
ContractLaunchedItem(contract, contractRows) ==
    LET row == FindRow(contractRows,
                   [i \in 1..Len(contractRows) |->
                       normalizeAddress(firstPresent(contractRows[i],
                                            <<"contract_address", "address">>)) = Str(contract)])
        timestamp == creationDate(row)
        label == String(JsOr(firstPresent(row, <<"collection_name", "name", "contract_name">>),
                             Str(contract)))
    IN  IF ~Truthy(timestamp) \/ timestamp.n < windowStart.n THEN <<>>
        ELSE <<[id |-> <<Str("contract-"), Str(contract)>>, date |-> toISOString(timestamp),
                title |-> "New Smart Contract Launched", detail |-> <<label>>, kind |-> "contract"]>>

\* sale.ts.toISOString().slice(0, 10): the UTC calendar day
DayOf(ts) == ts.n \div 24

RECURSIVE SumSeq(_)
SumSeq(seq) == IF seq = <<>> THEN 0 ELSE Head(seq) + SumSeq(Tail(seq))

\* the entries of the salesByDay map, in insertion order
SalesByDay(salesWithDate) ==
    LET n == Len(salesWithDate)
        days == Distinct([i \in 1..n |-> DayOf(salesWithDate[i].ts)])
    IN  [d \in 1..Len(days) |->
            [day |-> days[d],
             count |-> Cardinality({i \in 1..n : DayOf(salesWithDate[i].ts) = days[d]}),
             usd |-> SumSeq([i \in 1..n |->
                        IF DayOf(salesWithDate[i].ts) = days[d] /\ IsFinite(salesWithDate[i].usd)
                        THEN salesWithDate[i].usd.n ELSE 0])]]

\* mutant of the choice of the day: the days are ranked by total USD only
BiggestSaleDayItem_UsdOnly(salesWithDate) ==
    LET entries == SalesByDay(salesWithDate)
        ranked == StableSortBy(entries, [i \in 1..Len(entries) |-> 0 - entries[i].usd])
    IN  IF Len(ranked) = 0 THEN <<>>
        ELSE LET dayStart == DateObj(ranked[1].day * 24)
             IN  <<[id |-> <<Str("biggest-sale-day-"), [t |-> "day", n |-> ranked[1].day, s |-> ""]>>,
                    date |-> toISOString(dayStart),
                    title |-> "Biggest Sale Day",
                    detail |-> <<Num(ranked[1].count), Str(" sales totaling "),
                                 formatUsd(Num(ranked[1].usd)), Str(" on "),
                                 toLocaleDateString(dayStart)>>,
                    kind |-> "sale"]>>

\* [...salesByDay.entries()].sort(by usd descending, then count descending)[0]
BiggestSaleDayItem(salesWithDate) ==
    LET entries == SalesByDay(salesWithDate)
        n == Len(salesWithDate)
        ranked == StableSortBy(entries,
                      [i \in 1..Len(entries) |-> 0 - (entries[i].usd * (n + 1) + entries[i].count)])
    IN  IF Len(ranked) = 0 THEN <<>>
        ELSE LET dayStart == DateObj(ranked[1].day * 24)
             IN  <<[id |-> <<Str("biggest-sale-day-"), [t |-> "day", n |-> ranked[1].day, s |-> ""]>>,
                    date |-> toISOString(dayStart),
                    title |-> "Biggest Sale Day",
                    detail |-> <<Num(ranked[1].count), Str(" sales totaling "),
                                 formatUsd(Num(ranked[1].usd)), Str(" on "),
                                 toLocaleDateString(dayStart)>>,
                    kind |-> "sale"]>>

\* the item pushed for one dated sale
TokenSoldItem(item, mintedTokenKeys) ==
    LET tokenKey == tokenKeyFromEvent(item.event)
        transactionHash == firstPresent(item.event, <<"transaction_hash", "tx_hash", "hash">>)
    IN  [id |-> <<JsOr(transactionHash, toISOString(item.ts)), Str("-"), JsOr(tokenKey, Str("sale"))>>,
         date |-> toISOString(item.ts),
         title |-> IF tokenKey \in mintedTokenKeys THEN "Token Sold (Created by Wallet)"
                   ELSE "Token Sold (Previously Bought)",
         detail |-> tokenLabel(item.event) \o <<Str(" sold for "), formatUsd(item.usd)>>,
         kind |-> "sale"]

buildWalletMilestones(chain, wallet, artist, activityRows, contractRows) ==
    LET walletLc == LowerAddress(wallet)
        saleEvents == FilterSeq(activityRows,
                          [i \in 1..Len(activityRows) |-> IsWalletSale(activityRows[i], walletLc)])
        mintEvents == FilterSeq(activityRows,
                          [i \in 1..Len(activityRows) |->
                              InRecentWindow(activityRows[i]) /\ isMint(activityRows[i])])
        derivedContracts == DerivedContracts(activityRows)
        mintedTokenKeys == MintedTokenKeys(activityRows)
        launched == Flat([i \in 1..Len(derivedContracts) |->
                             ContractLaunchedItem(derivedContracts[i], contractRows)])
        salesWithDate == DatedItems(saleEvents)
        items ==
            launched \o BiggestSaleDayItem(salesWithDate)
                \o [i \in 1..Len(salesWithDate) |-> TokenSoldItem(salesWithDate[i], mintedTokenKeys)]
    IN  [threw |-> FALSE, items |-> items,
         value |-> [artist |-> artist, chain |-> chain, wallet |-> walletLc,
                    contracts |-> derivedContracts,
                    window |-> [days |-> RECENT_WINDOW_DAYS, start |-> toISOString(windowStart)],
                    totals |-> [mintCount |-> Len(mintEvents), saleCount |-> Len(saleEvents)],
                    milestones |-> OrderMilestones(items)]]

(***************************************************************************)
(* The /api/timeline request handler.                                      *)
(***************************************************************************)
\* parseAddressList, after the split at commas
parseAddressList(input) ==
    LET lowered == [i \in 1..Len(input) |-> LowerAddress(input[i])]
    IN  FilterSeq(lowered, [i \in 1..Len(lowered) |-> lowered[i] \in HexAddresses])

\* rows.push(...pageRows.map((row) => ({ ...row, contract_address: row.contract_address || contract })))
WithContract(rows, contract) ==
    [i \in 1..Len(rows) |->
        ("contract_address" :> JsOr(Get(rows[i], "contract_address"), Str(contract))) @@ rows[i]]

\* json(res, status, payload)
Json(status, payload) == [status |-> status, body |-> payload]

\* mutant of the handler: the milestones are collected in a list that
\* outlives the call
Respond_Accumulating(result) ==
    IF result.threw THEN Json(500, [error |-> result.error])
    ELSE Json(200, [result.value EXCEPT !.milestones = milestoneItems \o @])

\* what the try / catch around the derivation writes
Respond(result) ==
    IF result.threw THEN Json(500, [error |-> result.error]) ELSE Json(200, result.value)

ReqContracts == parseAddressList(req.contracts)
ReqWallet == normalizeAddress(Str(LowerAddress(req.wallet)))

(***************************************************************************)
(* Classifier harness: one raw record, drawn from ClassifyEvents, is       *)
(* handed to one of the pure classifiers and the returned value is kept.   *)
(***************************************************************************)
NoCall == [fn |-> "none", val |-> UNDEF]

PeakIdle ==
    /\ sales = <<>> /\ sorted = <<>> /\ left = 0 /\ right = 0
    /\ best = NoBest
    /\ ppc = "idle" /\ peak = UNDEF

RequestIdle ==
    /\ req = [mode |-> "none"] /\ up = [mode |-> "none"]
    /\ pc = "idle" /\ milestoneItems = <<>> /\ response = [status |-> 0]

NoTasks == [id \in {} |-> 0]

UpstreamIdle ==
    /\ walletAddr = NULL /\ resolver = <<>> /\ tasks = NoTasks /\ calls = {}

classifierVars == <<event, ret>>
peakVars == <<sales, sorted, left, right, best, ppc, peak>>
requestVars == <<req, up, pc, milestoneItems, response>>
upstreamVars == <<walletAddr, resolver, tasks, calls>>

UsdVals ==
    {Num(n) : n \in 0..MaxUsd} \cup {NumStr(n) : n \in 0..MaxUsd}
        \cup {Str("n/a"), Str(""), NULL}

AllUsdKeys == {UsdKeys[i] : i \in DOMAIN UsdKeys} \cup {NestedUsdKeys[i] : i \in DOMAIN NestedUsdKeys}

LabelParts ==
    {EmptyObj}
        \cup {"activity_type" :> Str(l) : l \in Labels}
        \cup {k :> Str(l) : k \in {"type", "event_type", "transaction_type", "operation"},
                             l \in {"sale", "listing_created"}}
        \cup {("activity_type" :> Str("")) @@ ("type" :> Str("sale")),
              ("activity_type" :> NULL) @@ ("type" :> Str("sale")),
              ("activity_type" :> Str("transfer")) @@ ("operation" :> Str("nft_trade")),
              "activity_type" :> Num(7)}

UsdParts ==
    {EmptyObj}
        \cup {k :> v : k \in AllUsdKeys, v \in UsdVals}
        \cup {("usd_value" :> Str("n/a")) @@ (k :> v) : k \in {"amount_usd", "price.usd", "value.usd"},
                                                       v \in UsdVals}
        \cup {("currency_price.usd" :> Num(0)) @@ ("value.usd" :> v) : v \in UsdVals}

ClassifyEvents == {l @@ u : l \in LabelParts, u \in UsdParts}

InitClassify ==
    /\ event \in ClassifyEvents
    /\ ret = NoCall
    /\ PeakIdle
    /\ RequestIdle
    /\ UpstreamIdle

CallIsSale ==
    /\ ret = NoCall
    /\ ret' = [fn |-> "isSale", val |-> Bool(isSale(event))]
    /\ UNCHANGED <<event, peakVars, requestVars, upstreamVars>>

CallUsdValue ==
    /\ ret = NoCall
    /\ ret' = [fn |-> "usdValue", val |-> usdValue(event)]
    /\ UNCHANGED <<event, peakVars, requestVars, upstreamVars>>

NextClassify == CallIsSale \/ CallUsdValue

SpecClassify == InitClassify /\ [][NextClassify]_vars

(***************************************************************************)
(* Claims about the classifiers.                                           *)
(***************************************************************************)
LabelOf(ev) == typeLabel(ev, TypeKeys)

NoSaleKeyword(ev) ==
    \A w \in {"sale", "trade", "listing", "mint"} : ~Includes(LabelOf(ev), w)

\* a value field of the record holds a number (or a numeric string)
HasNumericUsdField(ev) == \E k \in AllUsdKeys : Get(ev, k).t \in {"num", "numstr"}

\* the record holds some value field at all
HasUsdField(ev) == \E k \in AllUsdKeys : ~IsNullish(Get(ev, k))

\* C6: for a record whose type label contains none of 'sale', 'trade',
\* 'listing', 'mint', isSale returns true if and only if a numeric USD value
\* is extractable from one of the value fields; a record with no USD value
\* field is not a sale, and usdValue is absent (null) for it.
C6_SaleIffUsdExtractable ==
    /\ (ret.fn = "isSale" /\ NoSaleKeyword(event))
          => (ret.val = Bool(TRUE) <=> HasNumericUsdField(event))
    /\ (ret.fn = "isSale" /\ NoSaleKeyword(event) /\ ~HasUsdField(event))
          => ret.val = Bool(FALSE)
    /\ (ret.fn = "usdValue" /\ NoSaleKeyword(event) /\ ~HasUsdField(event))
          => ret.val = NULL

\* C7: isSale decides on the lower-cased type label by rules in priority
\* order: contains 'sale' gives true; else contains 'trade' gives true; else
\* contains 'listing' gives false; else contains 'mint' gives false.
C7_LabelRulesInOrder ==
    ret.fn = "isSale" =>
        LET l == LabelOf(event)
        IN  /\ Includes(l, "sale") => ret.val = Bool(TRUE)
            /\ (~Includes(l, "sale") /\ Includes(l, "trade")) => ret.val = Bool(TRUE)
            /\ (~Includes(l, "sale") /\ ~Includes(l, "trade") /\ Includes(l, "listing"))
                  => ret.val = Bool(FALSE)
            /\ (~Includes(l, "sale") /\ ~Includes(l, "trade") /\ ~Includes(l, "listing")
                   /\ Includes(l, "mint")) => ret.val = Bool(FALSE)

\* a 'listing_created' record that carries a numeric USD value was classified
C7_Witness ==
    /\ ret.fn = "isSale"
    /\ LabelOf(event) = "listing_created"
    /\ HasNumericUsdField(event)
    /\ ret.val = Bool(FALSE)


(***************************************************************************)
(* Peak harness: buildThreeMonthPeak is applied to a list of at most       *)
(* MaxSales records and run step by step.                                  *)
(***************************************************************************)
PeakTimes == {0, 24, THREE_MONTHS_MS, THREE_MONTHS_MS + 1, 2 * THREE_MONTHS_MS + 1}

PeakEvents ==
    {EmptyObj, "block_timestamp" :> Str("pending")}
        \cup {"block_timestamp" :> Iso(t) : t \in PeakTimes}

SeqsUpTo(S, n) == UNION {[1..k -> S] : k \in 0..n}

PeakState == [sorted |-> sorted, left |-> left, right |-> right, best |-> best,
              ppc |-> ppc, peak |-> peak]

PeakSet(ps) ==
    /\ sorted' = ps.sorted /\ left' = ps.left /\ right' = ps.right
    /\ best' = ps.best /\ ppc' = ps.ppc /\ peak' = ps.peak

InitPeak ==
    /\ sales \in SeqsUpTo(PeakEvents, MaxSales)
    /\ sorted = <<>> /\ left = 0 /\ right = 0 /\ best = NoBest
    /\ ppc = "call" /\ peak = UNDEF
    /\ event = EmptyObj /\ ret = NoCall
    /\ RequestIdle
    /\ UpstreamIdle

PeakCall ==
    /\ ppc = "call"
    /\ PeakSet(PeakEnter(sales))
    /\ UNCHANGED <<sales, classifierVars, requestVars, upstreamVars>>

PeakShrink ==
    /\ ppc = "scan" /\ PeakMore(PeakState) /\ PeakTooWide(PeakState)
    /\ PeakSet(PeakStep(PeakState))
    /\ UNCHANGED <<sales, classifierVars, requestVars, upstreamVars>>

PeakGrow ==
    /\ ppc = "scan" /\ PeakMore(PeakState) /\ ~PeakTooWide(PeakState)
    /\ PeakSet(PeakStep(PeakState))
    /\ UNCHANGED <<sales, classifierVars, requestVars, upstreamVars>>

PeakReturn ==
    /\ ppc = "scan" /\ ~PeakMore(PeakState)
    /\ PeakSet(PeakStep(PeakState))
    /\ UNCHANGED <<sales, classifierVars, requestVars, upstreamVars>>

NextPeak == PeakCall \/ PeakShrink \/ PeakGrow \/ PeakReturn

SpecPeak == InitPeak /\ [][NextPeak]_vars

(***************************************************************************)
(* Claims about the peak window.                                           *)
(***************************************************************************)
\* the indices of the input events that carry a parseable timestamp
DatedSales == {i \in 1..Len(sales) : eventTimestamp(sales[i]).t = "date"}

\* the number of dated input events in the closed window [a, a + 90 days]
InWindow(a) ==
    Cardinality({i \in DatedSales :
        /\ a <= eventTimestamp(sales[i]).n
        /\ eventTimestamp(sales[i]).n - a <= THREE_MONTHS_MS})

\* an optimal window can be shifted to start or to end at an event
WindowStarts ==
    {eventTimestamp(sales[i]).n : i \in DatedSales}
        \cup {eventTimestamp(sales[i]).n - THREE_MONTHS_MS : i \in DatedSales}

PeakCount == IF peak = NULL THEN 0 ELSE peak.count

\* C1: the window buildThreeMonthPeak returns has a count greater than or
\* equal to the number of dated events inside any window of 90 days over the
\* same events (a gap of exactly 90 days is inside), and the count never
\* exceeds the number of input events.
C1_PeakIsMaximal ==
    ppc = "done" =>
        /\ \A a \in WindowStarts : PeakCount >= InWindow(a)
        /\ PeakCount <= Len(sales)

\* a window of two or more events spanning exactly 90 days was returned
\* while another event lies outside it
C1_Witness ==
    /\ ppc = "done" /\ peak # NULL
    /\ peak.count >= 2
    /\ peak.end.n - peak.start.n = THREE_MONTHS_MS
    /\ Cardinality(DatedSales) > peak.count

\* the timestamps of the dated input events
DatedTimes == {eventTimestamp(sales[i]).n : i \in DatedSales}

\* the number of dated input events in the closed interval [a, b]
CountBetween(a, b) ==
    Cardinality({i \in DatedSales : a <= eventTimestamp(sales[i]).n /\ eventTimestamp(sales[i]).n <= b})

\* the window of 90 days that ends at the event time e: its count and the
\* time of its first event
CountEndingAt(e) == CountBetween(e - THREE_MONTHS_MS, e)
FirstEventOf(e) == CHOOSE t \in DatedTimes :
    /\ e - THREE_MONTHS_MS <= t
    /\ \A u \in DatedTimes : e - THREE_MONTHS_MS <= u => t <= u

\* the end times of the windows that reach the maximal count
MaximalEnds == {e \in DatedTimes : \A f \in DatedTimes : CountEndingAt(f) <= CountEndingAt(e)}

\* C26: buildThreeMonthPeak returns none for an empty input; otherwise, when
\* several windows reach the maximal count, it returns the first one met in
\* the left-to-right scan of the timestamp-sorted events (the one with the
\* earliest end event), with start and end equal to the timestamps of that
\* window's first and last event.
C26_FirstMaximalWindow ==
    ppc = "done" =>
        /\ Len(sales) = 0 => peak = NULL
        /\ DatedSales # {} =>
              /\ peak # NULL
              /\ peak.end.n \in MaximalEnds
              /\ \A e \in MaximalEnds : peak.end.n <= e
              /\ peak.start.n = FirstEventOf(peak.end.n)
              /\ peak.count = CountEndingAt(peak.end.n)

\* two different windows reach the maximal count and the earlier was returned
C26_Witness ==
    /\ ppc = "done" /\ peak # NULL /\ peak.count >= 2
    /\ \E e \in MaximalEnds : e > peak.end.n /\ FirstEventOf(e) > peak.start.n

\* C27: for every non-empty list of dated sale events, the window returned by
\* buildThreeMonthPeak satisfies start <= end and end - start <= 90 days, and
\* its count equals exactly the number of input events whose timestamp lies
\* in [start, end].
C27_WindowConsistent ==
    (ppc = "done" /\ DatedSales # {}) =>
        /\ peak # NULL
        /\ peak.start.n <= peak.end.n
        /\ peak.end.n - peak.start.n <= THREE_MONTHS_MS
        /\ peak.count = CountBetween(peak.start.n, peak.end.n)

\* a window that does not start at the first event was returned, and events
\* share its start or its end time
C27_Witness ==
    /\ ppc = "done" /\ peak # NULL
    /\ \E t \in DatedTimes : t < peak.start.n
    /\ peak.count > Cardinality({t \in DatedTimes : peak.start.n <= t /\ t <= peak.end.n})

\* what holds of the pointers in every state of the scan
C28_Pointers ==
    ppc \in {"scan", "done"} =>
        /\ 0 <= left /\ left <= right /\ right <= Len(sorted)
        /\ PeakMore(PeakState) => left + 1 \in 1..Len(sorted)
        /\ left <= Len(sales)

\* what holds of every step of the scan: left never decreases and advances
\* by one at most
C28_LeftStep == ppc = "scan" => left' >= left /\ left' <= left + 1 /\ right' >= right

\* C28: during the two-pointer scan of buildThreeMonthPeak the left pointer
\* never decreases and never exceeds the right pointer, every index read is
\* within the sorted list, and the left pointer advances at most as many
\* times as there are events over the whole scan.
C28_LinearScan == [](C28_Pointers) /\ [][C28_LeftStep]_vars

\* the scan ended after the left pointer advanced more than once
C28_Witness == ppc = "done" /\ left >= 2 /\ right = Len(sorted)


(***************************************************************************)
(* Requests: the handler is run on one request; the upstream answers every *)
(* fetch successfully with rows drawn from the pools below.                *)
(***************************************************************************)
Rec2(k1, v1, k2, v2) == (k1 :> v1) @@ (k2 :> v2)

\* rows of the contract activity feed (sale fetch)
SalePool ==
    {Rec2("activity_type", Str("sale"), "block_timestamp", Iso(24))
        @@ Rec2("usd_value", Num(10), "token_id", NumStr(1)),
     Rec2("activity_type", Str("sale"), "block_timestamp", Iso(48))
        @@ Rec2("usd_value", Num(50), "token_id", NumStr(2)),
     Rec2("activity_type", Str("sale"), "block_timestamp", Iso(72))
        @@ Rec2("usd_value", Num(30), "token_id", NumStr(1)),
     Rec2("activity_type", Str("sale"), "usd_value", Num(10)) @@ ("token_id" :> NumStr(1)),
     Rec2("activity_type", Str("listing_created"), "block_timestamp", Iso(24))
        @@ Rec2("usd_value", Num(10), "token_id", NumStr(1))}

\* rows of the contract activity feed (mint fetch)
MintPool ==
    {Rec2("activity_type", Str("nft_mint"), "block_timestamp", Iso(12)) @@ ("token_id" :> NumStr(1)),
     Rec2("activity_type", Str("mint"), "token_id", NumStr(2))}

\* what the metadata endpoint may answer for one contract: nothing (the
\* fetch failed and was swallowed), a row without a creation date, or a row
\* with one of the creation dates in created
ContractRowChoices(contract, created) ==
    {<<>>, <<"contract_address" :> Str(contract)>>}
        \cup {<<Rec2("address", Str(contract), "created_at", Iso(d)) @@ ("name" :> Str("Genesis"))>> :
                 d \in created}

\* one choice per listed contract, concatenated in list order; only the
\* first contract's metadata may lack a date
RECURSIVE ContractRowSets(_, _)
ContractRowSets(contracts, created) ==
    IF contracts = <<>> THEN {<<>>}
    ELSE {h \o t : h \in ContractRowChoices(Head(contracts), created),
                   t \in {r \in ContractRowSets(Tail(contracts), created) :
                             \A i \in 1..Len(r) : "created_at" \in DOMAIN r[i]}}

\* rows of the flattened wallet transaction feed.  Hour 8886 (06:00 of day 370) is the
\* start of the recent window; hour 8640 is day 360, before the window; 9120
\* and 9125 fall on day 380, 9144 on day 381.
WalletSale(ts, token, contract) ==
    Rec2("activity_type", Str("nft_trade"), "block_timestamp", Iso(ts))
        @@ Rec2("token_id", NumStr(token), "contract_address", Str(contract))
        @@ ("from_address" :> Str("0xwww"))

WalletPool ==
    {WalletSale(9120, 1, "0xaaa") @@ Rec2("usd_value", Num(10), "transaction_hash", Str("0xh1")),
     WalletSale(9120, 2, "0xAAA") @@ Rec2("usd_value", Num(50), "transaction_hash", Str("0xh1")),
     WalletSale(9125, 1, "0xaaa"),
     WalletSale(8886, 2, "0xaaa") @@ ("usd_value" :> Num(10)),
     WalletSale(9144, 2, "0xbbb") @@ Rec2("usd_value", Num(10), "transaction_hash", Str("0xh2")),
     WalletSale(8640, 1, "0xaaa") @@ ("usd_value" :> Num(10)),
     \* a sale without any timestamp
     Rec2("activity_type", Str("nft_trade"), "from_address", Str("0xwww"))
        @@ Rec2("token_id", NumStr(1), "contract_address", Str("0xaaa")),
     \* mints: before the window, inside it, undated, and a bare 'mint' without token id
     Rec2("activity_type", Str("mint"), "block_timestamp", Iso(9120))
        @@ ("contract_address" :> Str("0xaaa")),
     Rec2("activity_type", Str("nft_mint"), "block_timestamp", Iso(8640))
        @@ Rec2("token_id", NumStr(1), "contract_address", Str("0xaaa")),
     Rec2("activity_type", Str("nft_mint"), "block_timestamp", Iso(9120))
        @@ Rec2("token_id", NumStr(2), "contract_address", Str("0xaaa")),
     Rec2("activity_type", Str("nft_mint"), "token_id", NumStr(2))
        @@ ("contract_address" :> Str("0xaaa")),
     \* a trade in which the wallet is the recipient only
     Rec2("activity_type", Str("nft_trade"), "block_timestamp", Iso(9120))
        @@ Rec2("token_id", NumStr(1), "contract_address", Str("0xaaa"))
        @@ Rec2("sender", Str("0xooo"), "asset.to_address", Str("0xwww")),
     \* a trade of the wallet without a token id
     Rec2("activity_type", Str("nft_trade"), "block_timestamp", Iso(9120))
        @@ Rec2("from_address", Str("0xwww"), "contract_address", Str("0xaaa")),
     \* a trade sent by another account
     Rec2("activity_type", Str("nft_trade"), "block_timestamp", Iso(9120))
        @@ Rec2("token_id", NumStr(1), "contract_address", Str("0xaaa"))
        @@ Rec2("from_address", Str("0xooo"), "to_address", Str("0xwww")),
     \* a transfer inside a transaction that also holds an nft_trade activity
     Rec2("type", Str("transfer"), "block_timestamp", Iso(9125))
        @@ Rec2("token_id", NumStr(1), "contract_address", Str("0xaaa"))
        @@ Rec2("from_address", Str("0xwww"), "_tx_activity_types", ArrayOf("nft_trade")),
     \* a plain transfer
     Rec2("type", Str("transfer"), "block_timestamp", Iso(9120))
        @@ Rec2("token_id", NumStr(1), "contract_address", Str("0xaaa"))
        @@ ("from_address" :> Str("0xwww"))}

\* the sales of the wallet that carry a token id, a contract and a timestamp
\* inside the recent window
WalletSalePool ==
    {WalletSale(9120, 1, "0xaaa") @@ Rec2("usd_value", Num(10), "transaction_hash", Str("0xh1")),
     WalletSale(9125, 1, "0xaaa"),
     WalletSale(8886, 2, "0xaaa") @@ ("usd_value" :> Num(10)),
     WalletSale(9144, 2, "0xaaa") @@ Rec2("usd_value", Num(10), "transaction_hash", Str("0xh2"))}

\* sales of the wallet next to the mints and transfers of the tokens sold
WalletProvenancePool ==
    {WalletSale(9120, 1, "0xaaa") @@ Rec2("usd_value", Num(10), "transaction_hash", Str("0xh1")),
     WalletSale(9120, 2, "0xAAA") @@ Rec2("usd_value", Num(50), "transaction_hash", Str("0xh1")),
     WalletSale(9125, 1, "0xaaa"),
     Rec2("activity_type", Str("nft_mint"), "block_timestamp", Iso(8640))
        @@ Rec2("token_id", NumStr(1), "contract_address", Str("0xaaa")),
     Rec2("activity_type", Str("nft_mint"), "block_timestamp", Iso(9120))
        @@ Rec2("token_id", NumStr(2), "contract_address", Str("0xaaa")),
     Rec2("type", Str("transfer"), "block_timestamp", Iso(9125))
        @@ Rec2("token_id", NumStr(1), "contract_address", Str("0xaaa"))
        @@ Rec2("from_address", Str("0xwww"), "_tx_activity_types", ArrayOf("nft_trade"))}

\* what fetchWalletActivities may return: one record of any kind, a short
\* feed of sales, mints and transfers, or a longer feed of sales
\* activity of the wallet on two contracts: a sale on each inside the recent
\* window and a sale on the second before the window
WalletContractPool ==
    {WalletSale(9120, 1, "0xaaa") @@ ("usd_value" :> Num(10)),
     WalletSale(9144, 2, "0xbbb") @@ ("usd_value" :> Num(10)),
     WalletSale(8640, 1, "0xbbb") @@ ("usd_value" :> Num(10))}

WalletFeeds ==
    {<<r>> : r \in WalletPool}
        \cup SeqsUpTo(WalletProvenancePool, MaxRows)
        \cup SeqsUpTo(WalletSalePool, MaxWalletSales)
        \cup SeqsUpTo(WalletContractPool, MaxRows)

Requests ==
    {[contracts |-> c, wallet |-> "", chain |-> "ethereum", artist |-> "Artist"] :
        c \in {<<>>, <<"0x12">>, <<"0xaaa">>, <<"0xAAA", "0xaaa">>}}
      \cup
    {[contracts |-> c, wallet |-> "0xWWW", chain |-> "ethereum", artist |-> "Artist"] :
        c \in {<<>>, <<"0xbbb">>}}

NoRows == [mintRows |-> <<>>, saleRows |-> <<>>, contractRows |-> <<>>, activityRows |-> <<>>]

Init ==
    /\ req \in Requests
    /\ up = NoRows
    /\ pc = "start"
    /\ milestoneItems = <<>>
    /\ response = [status |-> 0]
    /\ event = EmptyObj /\ ret = NoCall
    /\ PeakIdle
    /\ UpstreamIdle

\* lines 740-745: neither a wallet nor a contract
RejectRequest ==
    /\ pc = "start"
    /\ ~Truthy(ReqWallet) /\ Len(ReqContracts) = 0
    /\ response' = Json(400, [error |-> "Provide a wallet address (.eth supported) or one or more contract addresses"])
    /\ pc' = "done"
    /\ UNCHANGED <<req, up, milestoneItems, classifierVars, peakVars, upstreamVars>>

\* buildMilestones up to the resolution of Promise.all: the activity of the
\* request is on the first listed contract
ContractRowsFetched ==
    /\ pc = "start"
    /\ ~Truthy(ReqWallet) /\ Len(ReqContracts) > 0
    /\ \E m \in SeqsUpTo(MintPool, MaxMintRows), sl \in SeqsUpTo(SalePool, MaxRows),
          c \in ContractRowSets(ReqContracts, {6}) :
            up' = [mintRows |-> WithContract(m, ReqContracts[1]),
                   saleRows |-> WithContract(sl, ReqContracts[1]),
                   contractRows |-> c, activityRows |-> <<>>]
    /\ pc' = "contract_rows"
    /\ UNCHANGED <<req, milestoneItems, response, classifierVars, peakVars, upstreamVars>>

\* the rest of buildMilestones and the response
ContractRespond ==
    /\ pc = "contract_rows"
    /\ \E result \in {buildMilestones(req.chain, ReqContracts, req.artist,
                                       up.mintRows, up.saleRows, up.contractRows)} :
          /\ milestoneItems' = result.items
          /\ response' = Respond(result)
    /\ pc' = "done"
    /\ UNCHANGED <<req, up, classifierVars, peakVars, upstreamVars>>

\* buildWalletMilestones up to the return of fetchWalletActivities
WalletActivityFetched ==
    /\ pc = "start"
    /\ Truthy(ReqWallet)
    /\ \E rows \in WalletFeeds : up' = [up EXCEPT !.activityRows = rows]
    /\ pc' = "wallet_activity"
    /\ UNCHANGED <<req, milestoneItems, response, classifierVars, peakVars, upstreamVars>>

\* lines 584-586: the metadata of the derived contracts, fetched only if there are any
WalletContractRowsFetched ==
    /\ pc = "wallet_activity"
    /\ \E c \in ContractRowSets(DerivedContracts(up.activityRows), {8640, 9144}) :
          up' = [up EXCEPT !.contractRows = c]
    /\ pc' = "wallet_rows"
    /\ UNCHANGED <<req, milestoneItems, response, classifierVars, peakVars, upstreamVars>>

\* the rest of buildWalletMilestones and the response
WalletRespond ==
    /\ pc = "wallet_rows"
    /\ \E result \in {buildWalletMilestones(req.chain, ReqWallet.s, req.artist,
                                             up.activityRows, up.contractRows)} :
          /\ milestoneItems' = result.items
          /\ response' = Respond(result)
    /\ pc' = "done"
    /\ UNCHANGED <<req, up, classifierVars, peakVars, upstreamVars>>

DeriveAgain ==
    /\ pc = "done" /\ response.status # 400
    /\ \E result \in {IF Truthy(ReqWallet)
                       THEN buildWalletMilestones(req.chain, ReqWallet.s, req.artist,
                                                  up.activityRows, up.contractRows)
                       ELSE buildMilestones(req.chain, ReqContracts, req.artist,
                                            up.mintRows, up.saleRows, up.contractRows)} :
          /\ milestoneItems' = result.items
          /\ response' = Respond(result)
    /\ pc' = "again"
    /\ UNCHANGED <<req, up, classifierVars, peakVars, upstreamVars>>

Next ==
    \/ RejectRequest
    \/ ContractRowsFetched
    \/ ContractRespond
    \/ WalletActivityFetched
    \/ WalletContractRowsFetched
    \/ WalletRespond
    \/ DeriveAgain

Spec == Init /\ [][Next]_vars


(***************************************************************************)
(* Claims about the derivation.                                            *)
(***************************************************************************)
WalletMode == Truthy(ReqWallet)
ContractMode == ~Truthy(ReqWallet) /\ Len(ReqContracts) > 0

\* the handler answered with a timeline result
Returned == pc = "done" /\ response.status = 200
Milestones == response.body.milestones

\* the instant of a milestone, read from its ISO date
TimeOf(m) == m.date.n

Occurrences(seq, x) == Cardinality({i \in 1..Len(seq) : seq[i] = x})

\* C2: in both modes the milestones of every returned result are sorted
\* non-decreasing by timestamp, and milestones with equal timestamps keep
\* the order in which they were pushed; the result holds exactly the pushed
\* items.
C2_MilestonesSortedStable ==
    Returned =>
        /\ \A p, q \in 1..Len(Milestones) :
              p < q => /\ TimeOf(Milestones[p]) <= TimeOf(Milestones[q])
                       /\ TimeOf(Milestones[p]) = TimeOf(Milestones[q]) =>
                             \E i, j \in 1..Len(milestoneItems) :
                                 /\ i < j
                                 /\ milestoneItems[i] = Milestones[p]
                                 /\ milestoneItems[j] = Milestones[q]
        /\ Len(Milestones) = Len(milestoneItems)
        /\ \A i \in 1..Len(milestoneItems) :
              Occurrences(Milestones, milestoneItems[i])
                  = Occurrences(milestoneItems, milestoneItems[i])

\* a wallet result in which the sort moved an item and two different
\* milestones share a timestamp
C2_Witness ==
    /\ Returned /\ WalletMode
    /\ Milestones # milestoneItems
    /\ \E p, q \in 1..Len(Milestones) :
          /\ p < q
          /\ TimeOf(Milestones[p]) = TimeOf(Milestones[q])
          /\ Milestones[p] # Milestones[q]

\* the same in contract-set mode
C2_WitnessContractMode ==
    /\ Returned /\ ContractMode
    /\ Milestones # milestoneItems
    /\ \E p, q \in 1..Len(Milestones) :
          /\ p < q
          /\ TimeOf(Milestones[p]) = TimeOf(Milestones[q])
          /\ Milestones[p] # Milestones[q]

\* the timestamps of the fetched sale rows that classify as sales and are dated
DatedSaleTimes ==
    {eventTimestamp(up.saleRows[i]).n :
        i \in {j \in 1..Len(up.saleRows) :
                  isSale(up.saleRows[j]) /\ eventTimestamp(up.saleRows[j]).t = "date"}}

MinOf(S) == CHOOSE x \in S : \A y \in S : x <= y
MaxOf(S) == CHOOSE x \in S : \A y \in S : x >= y

HasMilestone(title, time) ==
    \E p \in 1..Len(Milestones) : Milestones[p].title = title /\ TimeOf(Milestones[p]) = time

\* C3: in contract-set mode, whenever the fetches succeed and at least one
\* classified sale event has a timestamp, the derivation returns a timeline
\* result whose milestones include a 'First Sale' dated at the earliest sale
\* timestamp and a 'Most Recent Sale' dated at the latest.
C3_FirstAndRecentSale ==
    (pc = "done" /\ ContractMode /\ DatedSaleTimes # {}) =>
        /\ response.status = 200
        /\ HasMilestone("First Sale", MinOf(DatedSaleTimes))
        /\ HasMilestone("Most Recent Sale", MaxOf(DatedSaleTimes))

\* the in-window sales of the wallet, as the derivation counts them
WalletSaleRows ==
    {i \in 1..Len(up.activityRows) : IsWalletSale(up.activityRows[i], ReqWallet.s)}

\* the token keys of the mint records anywhere in the fetched activity
MintRecordKeys ==
    {tokenKeyFromEvent(up.activityRows[i]) :
        i \in {j \in 1..Len(up.activityRows) : isMint(up.activityRows[j])}}

\* C4: in wallet mode the totals report soldCreatedCount and soldBoughtCount,
\* the two add up to saleCount, and they partition the in-window sales by
\* whether the token key is in the wallet's minted-token-key set.
C4_SoldCountsPartitionSales ==
    (Returned /\ WalletMode) =>
        /\ {"soldCreatedCount", "soldBoughtCount"} \subseteq DOMAIN response.body.totals
        /\ response.body.totals.soldCreatedCount + response.body.totals.soldBoughtCount
              = response.body.totals.saleCount
        /\ response.body.totals.soldCreatedCount
              = Cardinality({i \in WalletSaleRows :
                                tokenKeyFromEvent(up.activityRows[i]) \in MintRecordKeys})


\* a record without any timestamp field, or with unparseable ones only
Undated(r) ==
    \A i \in 1..Len(TimestampKeys) :
        IsNullish(Get(r, TimestampKeys[i])) \/ Get(r, TimestampKeys[i]).t = "str"

WithoutUndated(rows) == FilterSeq(rows, [i \in 1..Len(rows) |-> ~Undated(rows[i])])

\* the result of the derivation on the fetched rows less the undated ones
ResultWithoutUndated ==
    IF WalletMode
    THEN buildWalletMilestones(req.chain, ReqWallet.s, req.artist,
                               WithoutUndated(up.activityRows), up.contractRows)
    ELSE buildMilestones(req.chain, ReqContracts, req.artist, WithoutUndated(up.mintRows),
                         WithoutUndated(up.saleRows), up.contractRows)

\* C5: in both modes a raw record that has none of the timestamp fields, or
\* only unparseable ones, never produces a milestone and never contributes
\* to a total: the milestones and totals of a result are those of the same
\* input without such records.
C5_UndatedRecordsIgnored ==
    Returned =>
        /\ ~ResultWithoutUndated.threw
        /\ Milestones = ResultWithoutUndated.value.milestones
        /\ response.body.totals = ResultWithoutUndated.value.totals

\* the dated, classified sales of the contract-set fetch with a finite USD
\* value in one of the value fields
FiniteUsdSales ==
    {i \in 1..Len(up.saleRows) :
        /\ isSale(up.saleRows[i])
        /\ eventTimestamp(up.saleRows[i]).t = "date"
        /\ IsFinite(usdValue(up.saleRows[i]))}

BiggestSaleMilestones == {p \in 1..Len(Milestones) : Milestones[p].title = "Biggest Sale"}

\* C8: in contract-set mode the 'Biggest Sale' milestone is the dated sale
\* event with the maximum USD value among the sale events that carry a finite
\* USD value, and none is emitted when no sale event carries one.
C8_BiggestSaleIsMaxUsd ==
    (pc = "done" /\ ContractMode) =>
        IF FiniteUsdSales # {}
        THEN /\ response.status = 200
             /\ Cardinality(BiggestSaleMilestones) = 1
             /\ \E i \in FiniteUsdSales :
                   /\ \A j \in FiniteUsdSales :
                         usdValue(up.saleRows[j]).n <= usdValue(up.saleRows[i]).n
                   /\ \A p \in BiggestSaleMilestones :
                         TimeOf(Milestones[p]) = eventTimestamp(up.saleRows[i]).n
        ELSE response.status = 200 => BiggestSaleMilestones = {}

CreatedTitle == "Token Sold (Created by Wallet)"
BoughtTitle == "Token Sold (Previously Bought)"

PerSaleMilestones == {p \in 1..Len(Milestones) : Milestones[p].title \in {CreatedTitle, BoughtTitle}}

\* the title the claim gives to the sale of a token key
ExpectedTitle(key) == IF key \in MintRecordKeys THEN CreatedTitle ELSE BoughtTitle

\* C9: in wallet mode every in-window sale yields exactly one per-sale
\* milestone, titled 'Token Sold (Created by Wallet)' if the token key of the
\* sale is among the token keys of the mint records anywhere in the fetched
\* activity and 'Token Sold (Previously Bought)' otherwise; without mint
\* records every per-sale milestone is 'Token Sold (Previously Bought)'.
C9_PerSaleProvenanceTitles ==
    (Returned /\ WalletMode) =>
        /\ Cardinality(PerSaleMilestones) = Cardinality(WalletSaleRows)
        /\ \A i \in WalletSaleRows :
              LET key == tokenKeyFromEvent(up.activityRows[i])
                  ts == eventTimestamp(up.activityRows[i]).n
              IN  Cardinality({p \in PerSaleMilestones :
                                  /\ TimeOf(Milestones[p]) = ts
                                  /\ Milestones[p].id[3] = key
                                  /\ Milestones[p].title = ExpectedTitle(key)})
                    = Cardinality({j \in WalletSaleRows :
                                  /\ eventTimestamp(up.activityRows[j]).n = ts
                                  /\ tokenKeyFromEvent(up.activityRows[j]) = key})
        /\ (\A j \in 1..Len(up.activityRows) : ~isMint(up.activityRows[j]))
              => \A p \in PerSaleMilestones : Milestones[p].title = BoughtTitle

\* a sale inside the window of a token whose only mint record lies before the
\* window was titled 'Token Sold (Created by Wallet)'
C9_Witness ==
    /\ Returned /\ WalletMode
    /\ \E p \in PerSaleMilestones : Milestones[p].title = CreatedTitle
    /\ \A j \in 1..Len(up.activityRows) :
          isMint(up.activityRows[j]) => ~InRecentWindow(up.activityRows[j])

\* the wallet is named by one of the sender fields of the record
WalletIsSender(r) ==
    \E k \in {"from_address", "seller_address", "maker", "asset.from_address", "sender"} :
        normalizeAddress(Get(r, k)) = ReqWallet

\* the records that may count as sales according to the claim
AttributableSales ==
    {i \in 1..Len(up.activityRows) :
        /\ InRecentWindow(up.activityRows[i])
        /\ tokenKeyFromEvent(up.activityRows[i]) # NULL
        /\ WalletIsSender(up.activityRows[i])}

\* C10: in wallet mode every event counted as a sale (in saleCount and in the
\* per-sale milestones) has a timestamp inside the recent window, a resolvable
\* token key and the wallet as its sender; an event in which the wallet is
\* only the recipient is never counted.
C10_SalesSentByWallet ==
    (Returned /\ WalletMode) =>
        /\ response.body.totals.saleCount <= Cardinality(AttributableSales)
        /\ \A p \in PerSaleMilestones :
              \E i \in AttributableSales :
                  /\ TimeOf(Milestones[p]) = eventTimestamp(up.activityRows[i]).n
                  /\ Milestones[p].id[3] = tokenKeyFromEvent(up.activityRows[i])


\* C16: in every returned result, of either mode, no two milestones share
\* the same id.
C16_MilestoneIdsUnique ==
    Returned =>
        \A p, q \in 1..Len(Milestones) : p # q => Milestones[p].id # Milestones[q].id

\* the UTC calendar days on which the wallet has an in-window sale
SaleDays == {DayOf(eventTimestamp(up.activityRows[i])) : i \in WalletSaleRows}

SalesOnDay(d) == {i \in WalletSaleRows : DayOf(eventTimestamp(up.activityRows[i])) = d}

\* the total of the finite USD values of the in-window sales of day d
UsdOnDay(d) ==
    SumSeq([i \in 1..Len(up.activityRows) |->
               IF i \in SalesOnDay(d) /\ IsFinite(usdValue(up.activityRows[i]))
               THEN usdValue(up.activityRows[i]).n ELSE 0])

BiggestSaleDayMilestones == {p \in 1..Len(Milestones) : Milestones[p].title = "Biggest Sale Day"}

\* C17: in wallet mode, with at least one in-window sale exactly one 'Biggest
\* Sale Day' milestone is emitted, dated at 00:00 UTC of a day whose total USD
\* is the maximum over all days and whose sale count is the highest among the
\* days with that total; its detail reports that day's count and total.  With
\* no in-window sale none is emitted.
C17_BiggestSaleDay ==
    (Returned /\ WalletMode) =>
        IF WalletSaleRows = {} THEN BiggestSaleDayMilestones = {}
        ELSE /\ Cardinality(BiggestSaleDayMilestones) = 1
             /\ \A p \in BiggestSaleDayMilestones :
                   \E d \in SaleDays :
                       /\ TimeOf(Milestones[p]) = d * 24
                       /\ Milestones[p].detail[1] = Num(Cardinality(SalesOnDay(d)))
                       /\ Milestones[p].detail[3] = formatUsd(Num(UsdOnDay(d)))
                       /\ \A e \in SaleDays :
                             /\ UsdOnDay(e) <= UsdOnDay(d)
                             /\ UsdOnDay(e) = UsdOnDay(d)
                                   => Cardinality(SalesOnDay(e)) <= Cardinality(SalesOnDay(d))

\* two days tie on total USD and the later one, which has more sales, was chosen
C17_Witness ==
    /\ Returned /\ WalletMode
    /\ \E p \in BiggestSaleDayMilestones :
          \E d, e \in SaleDays :
              /\ e < d
              /\ TimeOf(Milestones[p]) = d * 24
              /\ UsdOnDay(e) = UsdOnDay(d)
              /\ Cardinality(SalesOnDay(e)) < Cardinality(SalesOnDay(d))

\* C18: in wallet mode every milestone of the returned result has a timestamp
\* at or after the result's window.start.
C18_MilestonesInsideWindow ==
    (Returned /\ WalletMode) =>
        \A p \in 1..Len(Milestones) :
            TimeOf(Milestones[p]) >= parseDate(response.body.window.start).n


(***************************************************************************)
(* Token harness: one raw record, drawn from TokenEvents, is handed to     *)
(* tokenKeyFromEvent or to isMint and the returned value is kept.          *)
(***************************************************************************)
TokenLabelParts ==
    {EmptyObj}
        \cup {"activity_type" :> Str(l) : l \in {"mint", "nft_mint", "NFT_MINT", "sale", "transfer"}}
        \cup {"operation" :> Str("mint")}

\* token ids as upstream may spell them: JSON numbers and strings of digits
TokenIdVals == {Num(n) : n \in 0..MaxTokenId} \cup {NumStr(n) : n \in 0..MaxTokenId}

TokenIdParts ==
    {EmptyObj}
        \cup {k :> v : k \in {"token_id", "tokenId", "nft_id", "asset.token_id"}, v \in TokenIdVals}
        \cup {("token_id" :> NULL) @@ ("nft_id" :> v) : v \in TokenIdVals}
        \cup {("tokenId" :> v) @@ ("asset.token_id" :> NumStr(MaxTokenId)) : v \in TokenIdVals}

TokenContractParts ==
    {EmptyObj, "contract_address" :> Str("0x12")}
        \cup {k :> Str(a) : k \in {"contract_address", "token_address", "collection_address",
                                   "nft_address", "asset.token_address"},
                            a \in {"0xaaa", "0xAAA"}}
        \cup {("contract_address" :> NULL) @@ ("nft_address" :> Str("0xbbb")),
              ("token_address" :> Str("0xbbb")) @@ ("asset.token_address" :> Str("0xaaa"))}

TokenEvents == {l @@ i @@ c : l \in TokenLabelParts, i \in TokenIdParts, c \in TokenContractParts}

InitToken ==
    /\ event \in TokenEvents
    /\ ret = NoCall
    /\ PeakIdle
    /\ RequestIdle
    /\ UpstreamIdle

CallTokenKeyFromEvent ==
    /\ ret = NoCall
    /\ ret' = [fn |-> "tokenKeyFromEvent", val |-> tokenKeyFromEvent(event)]
    /\ UNCHANGED <<event, peakVars, requestVars, upstreamVars>>

CallIsMint ==
    /\ ret = NoCall
    /\ ret' = [fn |-> "isMint", val |-> Bool(isMint(event))]
    /\ UNCHANGED <<event, peakVars, requestVars, upstreamVars>>

NextToken == CallTokenKeyFromEvent \/ CallIsMint

SpecToken == InitToken /\ [][NextToken]_vars

(***************************************************************************)
(* Claims about the token key and the mint test.                           *)
(***************************************************************************)
AllContractKeys == ContractKeys \o <<"asset.token_address">>
AllTokenIdKeys == TokenIdKeys \o <<"asset.token_id">>

\* the two halves of the key as the claim reads them: the first non-null
\* candidate field of each list (a malformed address counts as missing)
ContractHalf(ev) == normalizeAddress(firstPresent(ev, AllContractKeys))
TokenIdHalf(ev) == firstPresent(ev, AllTokenIdKeys)

ExpectedTokenKey(ev) ==
    IF IsNullish(ContractHalf(ev)) \/ IsNullish(TokenIdHalf(ev)) THEN NULL
    ELSE [t |-> "tokenkey", n |-> String(TokenIdHalf(ev)).n, s |-> ContractHalf(ev).s]

\* C14: tokenKeyFromEvent returns 'contractAddress:tokenId' built from the
\* first non-null candidate field of the contract address and the first
\* non-null candidate field of the token id, for every token id value; it is
\* absent if and only if one of the two halves is missing; two records of the
\* same contract and token id get the same key.
C14_TokenKeyFromFirstPresent ==
    ret.fn = "tokenKeyFromEvent" =>
        /\ ret.val = ExpectedTokenKey(event)
        /\ (ret.val = NULL) <=> (IsNullish(ContractHalf(event)) \/ IsNullish(TokenIdHalf(event)))
        /\ \A other \in TokenEvents :
              (/\ ContractHalf(other) = ContractHalf(event)
               /\ ~IsNullish(ContractHalf(event))
               /\ ~IsNullish(TokenIdHalf(event))
               /\ ~IsNullish(TokenIdHalf(other))
               /\ String(TokenIdHalf(other)) = String(TokenIdHalf(event)))
                  => tokenKeyFromEvent(other) = ret.val

\* a token id is resolvable: one of the four fields holds a non-null value
TokenIdResolvable(ev) ==
    \E i \in 1..Len(AllTokenIdKeys) : ~IsNullish(Get(ev, AllTokenIdKeys[i]))

\* C15: isMint returns true if and only if the type label contains 'mint' and
\* either one of token_id, tokenId, nft_id, asset.token_id holds a non-null
\* value or the label also contains 'nft'.
C15_MintNeedsTokenIdOrNft ==
    ret.fn = "isMint" =>
        ret.val = Bool(/\ Includes(LabelOf(event), "mint")
                       /\ (TokenIdResolvable(event) \/ Includes(LabelOf(event), "nft")))


(***************************************************************************)
(* Upstream retrieval.  A retrieval is a record                            *)
(*   kind      "mint" / "sale" (fetchActivitiesForContract), "wallet"      *)
(*             (fetchWalletActivities) or "meta" (one contract of          *)
(*             fetchContractRows)                                          *)
(*   contract  the contract of the retrieval ("" for the wallet feed)      *)
(*   page, attempt, cursor, rows   the locals of the loops                 *)
(*   st        "inflight": a request is out and its response awaited;      *)
(*             "backoff": the delay before the next attempt is running;    *)
(*             "done": the promise resolved; "threw": it rejected          *)
(*   error     the status carried by the error raised by alliumGet /       *)
(*             alliumPost (0: none)                                        *)
(*   resp      the status of the response being handled (0 while a request *)
(*             is out)                                                     *)
(*   got       the payloads of the successful responses, in order          *)
(* The page sizes and page ceilings of the source (100 and 1000 rows, 40   *)
(* and 20 pages) are scaled down to the bounds of the model.               *)
(***************************************************************************)
CONTRACT_ACTIVITY_PAGE_SIZE == MaxPageRows
WALLET_TX_PAGE_SIZE == MaxPageRows
MAX_CONTRACT_ACTIVITY_PAGES == MaxPages
MAX_WALLET_TX_PAGES == MaxPages + 3
RETRYABLE_STATUSES == {429, 500, 502, 503, 504}
PROVENANCE_LOOKBACK_DAYS == 365

\* response.ok
ResponseOk(status) == status \in 200..299

\* mutant of the retry loop: every failure status is retried
AlliumOutcome_RetryAnyFailure(attempt, status) ==
    IF ResponseOk(status) THEN "return"
    ELSE IF attempt = 3 THEN "throw"
    ELSE "retry"

\* one pass of the loop of alliumGet / alliumPost on the response of the
\* attempt: break and return the body, throw, or wait and go round again
AlliumOutcome(attempt, status) ==
    IF ResponseOk(status) THEN "return"
    ELSE IF status \notin RETRYABLE_STATUSES \/ attempt = 3 THEN "throw"
    ELSE "retry"

\* alliumItems: the payloads of the model carry their rows in items
alliumItems(payload) == payload.items

\* mutant of the page loops: the cursor is left out of the request
PageRequest_NoCursor(page, cursor) == [page |-> page, cursor |-> UNDEF]

\* the request of a page as the loops build it: cursor: cursor || undefined
PageRequest(page, cursor) ==
    [page |-> page, cursor |-> IF Truthy(cursor) THEN cursor ELSE UNDEF]

NewTask(kind, contract) ==
    [kind |-> kind, contract |-> contract, page |-> 0, attempt |-> 0, cursor |-> NULL,
     rows |-> <<>>, st |-> "inflight", error |-> 0, resp |-> 0, got |-> <<>>,
     out |-> {PageRequest(0, NULL)}]

\* mutant of the page loop: it goes on as long as there is a cursor
ContractPageReceived_CursorOnly(f, payload) ==
    LET pageRows == alliumItems(payload)
        cursor == JsOr(payload.cursor, NULL)
        stop == ~Truthy(cursor) \/ f.page + 1 >= MAX_CONTRACT_ACTIVITY_PAGES
    IN  [f EXCEPT !.rows = @ \o WithContract(pageRows, f.contract),
                  !.cursor = cursor, !.attempt = 0, !.resp = IF stop THEN 200 ELSE 0,
                  !.got = Append(@, payload),
                  !.st = IF stop THEN "done" ELSE "inflight",
                  !.page = IF stop THEN @ ELSE @ + 1]

\* mutant of the page loop: the page ceiling is tested one page late
ContractPageReceived_OnePageMore(f, payload) ==
    LET pageRows == alliumItems(payload)
        cursor == JsOr(payload.cursor, NULL)
        stop == \/ ~Truthy(cursor) \/ Len(pageRows) < CONTRACT_ACTIVITY_PAGE_SIZE
                \/ f.page >= MAX_CONTRACT_ACTIVITY_PAGES
    IN  [f EXCEPT !.rows = @ \o WithContract(pageRows, f.contract),
                  !.cursor = cursor, !.attempt = 0, !.resp = IF stop THEN 200 ELSE 0,
                  !.got = Append(@, payload),
                  !.st = IF stop THEN "done" ELSE "inflight",
                  !.page = IF stop THEN @ ELSE @ + 1]

\* fetchActivitiesForContract from the return of alliumGet to the next
\* request or to the return of the rows
ContractPageReceived(f, payload) ==
    LET pageRows == alliumItems(payload)
        cursor == JsOr(payload.cursor, NULL)
        stop == \/ ~Truthy(cursor) \/ Len(pageRows) < CONTRACT_ACTIVITY_PAGE_SIZE
                \/ f.page + 1 >= MAX_CONTRACT_ACTIVITY_PAGES
    IN  [f EXCEPT !.rows = @ \o WithContract(pageRows, f.contract),
                  !.cursor = cursor, !.attempt = 0, !.resp = IF stop THEN 200 ELSE 0,
                  !.got = Append(@, payload),
                  !.st = IF stop THEN "done" ELSE "inflight",
                  !.page = IF stop THEN @ ELSE @ + 1]

\* Array.isArray(tx?.key) ? tx.key : []
SubRecords(tx, key) == IF key \in DOMAIN tx THEN tx[key] ELSE <<>>

TxTimestamp(tx) == JsOr(Get(tx, "block_timestamp"), Get(tx, "timestamp"))

\* txActivityTypes; a transaction of the model holds at most one activity
TxActivityTypes(tx) ==
    LET activities == SubRecords(tx, "activities")
        types == [i \in 1..Len(activities) |->
                     typeLabel(activities[i], <<"activity_type", "type", "event_type", "operation">>)]
        kept == FilterSeq(types, [i \in 1..Len(types) |-> types[i] # ""])
    IN  IF kept = <<>> THEN [t |-> "arr", n |-> 0, s |-> ""] ELSE ArrayOf(kept[1])

\* the merged row of one transfer or activity of a transaction
MergedRow(sub, tx) ==
    ("block_timestamp" :> JsOr(Get(sub, "block_timestamp"), TxTimestamp(tx)))
        @@ ("transaction_hash" :> JsOr(Get(sub, "transaction_hash"),
                                       JsOr(Get(tx, "hash"), Get(tx, "transaction_hash"))))
        @@ ("_tx_activity_types" :> TxActivityTypes(tx))
        @@ sub

\* the rows pushed for one transaction: its transfers, then its activities
FlattenTx(tx) ==
    LET transfers == SubRecords(tx, "asset_transfers")
        activities == SubRecords(tx, "activities")
    IN  [i \in 1..Len(transfers) |-> MergedRow(transfers[i], tx)]
            \o [i \in 1..Len(activities) |-> MergedRow(activities[i], tx)]

\* mutant of the wallet page loop: the recent cutoff stops the loop without
\* the minimum page count
WalletPageReceived_NoMinimum(f, payload) ==
    LET txRows == alliumItems(payload)
        recentCutoffMs == Now - RECENT_WINDOW_DAYS * 24
        provenanceCutoffMs == Now - PROVENANCE_LOOKBACK_DAYS * 24
        dates == {parseDate(TxTimestamp(txRows[i])).n :
                     i \in {j \in 1..Len(txRows) : Truthy(parseDate(TxTimestamp(txRows[j])))}}
        cursor == JsOr(payload.cursor, NULL)
        stop == \/ ~Truthy(cursor) \/ Len(txRows) < WALLET_TX_PAGE_SIZE
                \/ \E d \in dates : d <= provenanceCutoffMs
                \/ \E d \in dates : d <= recentCutoffMs
                \/ f.page + 1 >= MAX_WALLET_TX_PAGES
    IN  [f EXCEPT !.rows = @ \o Flat([i \in 1..Len(txRows) |-> FlattenTx(txRows[i])]),
                  !.cursor = cursor, !.attempt = 0, !.resp = IF stop THEN 200 ELSE 0,
                  !.got = Append(@, payload),
                  !.st = IF stop THEN "done" ELSE "inflight",
                  !.page = IF stop THEN @ ELSE @ + 1]

\* fetchWalletActivities from the return of alliumPost to the next request or
\* to the return of the rows; oldestSeenOnPage <= cutoff holds iff some dated
\* transaction of the page is at or before the cutoff
WalletPageReceived(f, payload) ==
    LET txRows == alliumItems(payload)
        recentCutoffMs == Now - RECENT_WINDOW_DAYS * 24
        provenanceCutoffMs == Now - PROVENANCE_LOOKBACK_DAYS * 24
        dates == {parseDate(TxTimestamp(txRows[i])).n :
                     i \in {j \in 1..Len(txRows) : Truthy(parseDate(TxTimestamp(txRows[j])))}}
        cursor == JsOr(payload.cursor, NULL)
        stop == \/ ~Truthy(cursor) \/ Len(txRows) < WALLET_TX_PAGE_SIZE
                \/ \E d \in dates : d <= provenanceCutoffMs
                \/ (\E d \in dates : d <= recentCutoffMs) /\ f.page >= 3
                \/ f.page + 1 >= MAX_WALLET_TX_PAGES
    IN  [f EXCEPT !.rows = @ \o Flat([i \in 1..Len(txRows) |-> FlattenTx(txRows[i])]),
                  !.cursor = cursor, !.attempt = 0, !.resp = IF stop THEN 200 ELSE 0,
                  !.got = Append(@, payload),
                  !.st = IF stop THEN "done" ELSE "inflight",
                  !.page = IF stop THEN @ ELSE @ + 1]

\* payload?.data || payload
MetaRow(payload) == IF "data" \in DOMAIN payload THEN payload["data"] ELSE payload

\* the callback of fetchContractRows after alliumGet returned
MetaReceived(f, payload) ==
    [f EXCEPT !.rows = <<MetaRow(payload)>>, !.attempt = 0, !.resp = 200,
              !.got = Append(@, payload), !.st = "done"]

\* the continuation of a retrieval on a successful response: the request is
\* answered, and the next one goes out if the loop goes round again
PageReceived(f, payload) ==
    LET g == CASE f.kind \in {"mint", "sale"} -> ContractPageReceived(f, payload)
               [] f.kind = "wallet" -> WalletPageReceived(f, payload)
               [] OTHER -> MetaReceived(f, payload)
    IN  [g EXCEPT !.out = IF g.st = "inflight" THEN {PageRequest(g.page, g.cursor)} ELSE {}]

\* mutant of the retrievals: every one of them catches the error of the
\* retry loop and resolves to no rows
AlliumThrew_AllCaught(f, status) ==
    [f EXCEPT !.st = "done", !.error = status, !.resp = status, !.rows = <<>>]

\* alliumGet / alliumPost threw `Allium ${status}: ...`: the activity
\* retrievals reject with it, fetchContractRows catches it and resolves to
\* null, which rows.filter(Boolean) drops
AlliumThrew(f, status) ==
    IF f.kind = "meta"
    THEN [f EXCEPT !.st = "done", !.error = status, !.resp = status, !.rows = <<>>]
    ELSE [f EXCEPT !.st = "threw", !.error = status, !.resp = status, !.rows = <<>>]


(***************************************************************************)
(* The request handler with its outbound calls: name resolution, the       *)
(* concurrent retrievals of contract-set mode, the wallet feed followed by *)
(* the metadata of the derived contracts, and the response.  One action is *)
(* one continuation of the code: it runs from the arrival of a response    *)
(* (or the firing of the back-off timer) to the next await.  The           *)
(* retrievals are followed until the response of the request is written.   *)
(***************************************************************************)
\* (searchParams.get("wallet") || "").trim().toLowerCase()
WalletInput == LowerAddress(req.wallet)

\* String.prototype.endsWith(".eth") over the wallet inputs of the model
EndsWithEth(s) == s = "artist.eth"

\* mutant of the handler: every wallet input that is not empty is taken for
\* a name to resolve
Ens_AnyInput == IF WalletInput # "" THEN Str(WalletInput) ELSE NULL

\* const ens = walletInput.endsWith(".eth") ? walletInput : null
Ens == IF EndsWithEth(WalletInput) THEN Str(WalletInput) ELSE NULL

\* the endpoints of resolveEnsName, in the order they are tried
ResolverEndpoints == <<"api.ensideas.com", "api.ensdata.net">>

\* what one resolver endpoint may answer: the fetch throws, or a response
\* with a status and a JSON body
ResolverAnswers ==
    {[threw |-> TRUE, status |-> 0, data |-> EmptyObj],
     [threw |-> FALSE, status |-> 404, data |-> EmptyObj],
     [threw |-> FALSE, status |-> 404, data |-> "address" :> Str("0xwww")],
     [threw |-> FALSE, status |-> 200, data |-> EmptyObj],
     [threw |-> FALSE, status |-> 200, data |-> "address" :> Str("0xWWW")],
     [threw |-> FALSE, status |-> 200, data |-> "addr" :> Str("0xwww")],
     [threw |-> FALSE, status |-> 200, data |-> "address" :> Str("junk")]}

\* the answer of an endpoint that was asked and has not answered yet
Pending == [threw |-> FALSE, status |-> 0, data |-> EmptyObj]

\* the call of endpoint number i
Asked(i) == [endpoint |-> ResolverEndpoints[i], answer |-> Pending]

\* mutant of resolveEnsName: the status of the response is not looked at
ResolvedAddress_IgnoreStatus(a) ==
    IF a.threw THEN NULL
    ELSE normalizeAddress(JsOr(JsOr(Get(a.data, "address"), Get(a.data, "addr")),
                               Get(a.data, "resolver_address")))

\* the body of the loop of resolveEnsName: the address an answer yields, or null
ResolvedAddress(a) ==
    IF a.threw \/ ~ResponseOk(a.status) THEN NULL
    ELSE normalizeAddress(JsOr(JsOr(Get(a.data, "address"), Get(a.data, "addr")),
                               Get(a.data, "resolver_address")))

\* the message of the error thrown by alliumGet / alliumPost, less the body text
AlliumMessage(status) ==
    CASE status = 404 -> "Allium 404"
      [] status = 429 -> "Allium 429"
      [] status = 501 -> "Allium 501"
      [] status = 503 -> "Allium 503"
      [] OTHER -> "Allium"

\* the statuses with which the upstream answers a request it does not serve
FailureStatuses == {429, 404}

\* rows of the activity feeds
UpstreamSalePool ==
    {Rec2("activity_type", Str("sale"), "block_timestamp", Iso(24))
        @@ Rec2("usd_value", Num(10), "token_id", NumStr(1))}

UpstreamMintPool ==
    {Rec2("activity_type", Str("nft_mint"), "block_timestamp", Iso(12)) @@ ("token_id" :> NumStr(1))}

\* transactions of the wallet feed: a sale inside the recent window with its
\* transfer and its activity, and a bare transaction from before the
\* provenance cutoff
TxPool ==
    {Rec2("block_timestamp", Iso(9120), "hash", Str("0xh1"))
        @@ ("asset_transfers" :>
               <<Rec2("token_id", NumStr(1), "contract_address", Str("0xaaa"))
                    @@ ("from_address" :> Str("0xwww"))>>)
        @@ ("activities" :>
               <<Rec2("activity_type", Str("nft_trade"), "usd_value", Num(10))
                    @@ Rec2("token_id", NumStr(1), "contract_address", Str("0xaaa"))
                    @@ ("from_address" :> Str("0xwww"))>>),
     "block_timestamp" :> Iso(24)}

\* a page of n copies of one row, with or without a cursor
PagesOf(pool, size) ==
    {[items |-> [i \in 1..n |-> r], cursor |-> c] :
        n \in 0..size, r \in pool, c \in {NULL, Str("next")}}

\* the bodies of the metadata endpoint for one contract
MetaPayloads(contract) ==
    {"contract_address" :> Str(contract),
     Rec2("address", Str(contract), "created_at", Iso(9144)) @@ ("name" :> Str("Genesis")),
     "data" :> (Rec2("address", Str(contract), "created_at", Iso(9144)) @@ ("name" :> Str("Genesis")))}

\* the bodies the upstream may return to a request of retrieval f
Payloads(f) ==
    CASE f.kind = "mint" -> PagesOf(UpstreamMintPool, CONTRACT_ACTIVITY_PAGE_SIZE)
      [] f.kind = "sale" -> PagesOf(UpstreamSalePool, CONTRACT_ACTIVITY_PAGE_SIZE)
      [] f.kind = "wallet" -> PagesOf(TxPool, WALLET_TX_PAGE_SIZE)
      [] OTHER -> MetaPayloads(f.contract)

\* the requests that are followed through their outbound calls: an address
\* or a name as the wallet, with and without a contract list (a name that does
\* not resolve leaves the contract list alone), and requests without either
UpstreamRequests ==
    {[contracts |-> c, wallet |-> w, chain |-> "ethereum", artist |-> "Artist"] :
        c \in {<<>>, <<"0xaaa">>}, w \in {"0xWWW", "Artist.ETH"}}
      \cup {[contracts |-> <<>>, wallet |-> w, chain |-> "ethereum", artist |-> "Artist"] :
               w \in {"", "junk"}}

InitUpstream ==
    /\ req \in UpstreamRequests
    /\ up = NoRows
    /\ pc = "start"
    /\ milestoneItems = <<>>
    /\ response = [status |-> 0]
    /\ event = EmptyObj /\ ret = NoCall
    /\ PeakIdle
    /\ UpstreamIdle

\* lines 733-738 up to the first await
ParseRequest ==
    /\ pc = "start"
    /\ LET direct == normalizeAddress(Str(WalletInput))
       IN  IF Truthy(direct)
           THEN walletAddr' = direct /\ pc' = "resolved" /\ UNCHANGED <<resolver, calls>>
           ELSE IF Ens # NULL
           THEN /\ resolver' = <<Asked(1)>> /\ calls' = calls \cup {"resolver"}
                /\ pc' = "resolving" /\ UNCHANGED walletAddr
           ELSE walletAddr' = NULL /\ pc' = "resolved" /\ UNCHANGED <<resolver, calls>>
    /\ UNCHANGED <<req, up, milestoneItems, response, tasks, classifierVars, peakVars>>

\* resolveEnsName: the answer of the endpoint that was asked
ResolverResponds ==
    /\ pc = "resolving"
    /\ \E a \in ResolverAnswers :
          LET addr == ResolvedAddress(a)
              answered == [resolver EXCEPT ![Len(resolver)].answer = a]
          IN  IF Truthy(addr)
              THEN walletAddr' = addr /\ resolver' = answered /\ pc' = "resolved"
              ELSE IF Len(resolver) < Len(ResolverEndpoints)
              THEN /\ resolver' = Append(answered, Asked(Len(resolver) + 1))
                   /\ UNCHANGED <<walletAddr, pc>>
              ELSE walletAddr' = NULL /\ resolver' = answered /\ pc' = "resolved"
    /\ UNCHANGED <<req, up, milestoneItems, response, tasks, calls, classifierVars, peakVars>>

\* lines 740-745; resolveEnsName has returned and its locals are gone
RejectInvalid ==
    /\ pc = "resolved"
    /\ ~Truthy(walletAddr) /\ Len(ReqContracts) = 0
    /\ response' = Json(400, [error |-> "Provide a wallet address (.eth supported) or one or more contract addresses"])
    /\ pc' = "done"
    /\ resolver' = <<>>
    /\ UNCHANGED <<req, up, milestoneItems, walletAddr, tasks, calls, classifierVars, peakVars>>

\* buildMilestones, lines 425-429: the first request of every retrieval goes out
StartContractFetches ==
    /\ pc = "resolved"
    /\ ~Truthy(walletAddr) /\ Len(ReqContracts) > 0
    /\ tasks' = [id \in {"mint", "sale", "meta"} \X (1..Len(ReqContracts)) |->
                    NewTask(id[1], ReqContracts[id[2]])]
    /\ calls' = calls \cup {"activity", "metadata"}
    /\ pc' = "fetching"
    /\ resolver' = <<>>
    /\ UNCHANGED <<req, up, milestoneItems, response, walletAddr, classifierVars, peakVars>>

\* buildWalletMilestones, line 545: the first page of the wallet feed is requested
StartWalletFetch ==
    /\ pc = "resolved"
    /\ Truthy(walletAddr)
    /\ tasks' = [id \in {<<"wallet", 1>>} |-> NewTask("wallet", "")]
    /\ calls' = calls \cup {"wallet"}
    /\ pc' = "fetching"
    /\ resolver' = <<>>
    /\ UNCHANGED <<req, up, milestoneItems, response, walletAddr, classifierVars, peakVars>>

\* a successful response arrives: the retry loop returns its body and the
\* retrieval goes on to its next request or resolves
TaskReturns ==
    /\ pc # "done"
    /\ \E id \in DOMAIN tasks :
          /\ tasks[id].st = "inflight"
          /\ AlliumOutcome(tasks[id].attempt, 200) = "return"
          /\ \E payload \in Payloads(tasks[id]) :
                tasks' = [tasks EXCEPT ![id] = PageReceived(@, payload)]
    /\ UNCHANGED <<req, up, pc, milestoneItems, response, walletAddr, resolver, calls,
                   classifierVars, peakVars>>

\* a failure response that the retry loop answers with a delay
TaskBacksOff ==
    /\ pc # "done"
    /\ \E id \in DOMAIN tasks, status \in FailureStatuses :
          /\ tasks[id].st = "inflight"
          /\ AlliumOutcome(tasks[id].attempt, status) = "retry"
          /\ tasks' = [tasks EXCEPT ![id].st = "backoff", ![id].resp = status, ![id].out = {}]
    /\ UNCHANGED <<req, up, pc, milestoneItems, response, walletAddr, resolver, calls,
                   classifierVars, peakVars>>

\* the delay is over: attempt += 1 and the same request goes out again
TaskRetries ==
    /\ pc # "done"
    /\ \E id \in DOMAIN tasks :
          /\ tasks[id].st = "backoff"
          /\ tasks[id].attempt + 1 < 4
          /\ tasks' = [tasks EXCEPT ![id].st = "inflight", ![id].attempt = @ + 1,
                                     ![id].resp = 0,
                                     ![id].out = {PageRequest(tasks[id].page, tasks[id].cursor)}]
    /\ UNCHANGED <<req, up, pc, milestoneItems, response, walletAddr, resolver, calls,
                   classifierVars, peakVars>>

\* a failure response on which the retry loop throws.  A rejected retrieval
\* rejects Promise.all and the await of the handler, whose catch answers 500
\* (lines 753-755) unless the response was written already.
TaskThrows ==
    /\ pc # "done"
    /\ \E id \in DOMAIN tasks, status \in FailureStatuses :
          /\ tasks[id].st = "inflight"
          /\ AlliumOutcome(tasks[id].attempt, status) = "throw"
          /\ tasks' = [tasks EXCEPT ![id] = [AlliumThrew(@, status) EXCEPT !.out = {}]]
          /\ IF AlliumThrew(tasks[id], status).st = "threw" /\ pc \in {"fetching", "metadata"}
             THEN /\ response' = Json(500, [error |-> AlliumMessage(status)])
                  /\ pc' = "done"
             ELSE UNCHANGED <<response, pc>>
    /\ UNCHANGED <<req, up, milestoneItems, walletAddr, resolver, calls, classifierVars, peakVars>>

AllTasksDone == \A id \in DOMAIN tasks : tasks[id].st = "done"

\* the rows of the retrievals of one kind, in the order of the contract list
RowsOf(kind) ==
    Flat([i \in 1..Cardinality({id \in DOMAIN tasks : id[1] = kind}) |-> tasks[<<kind, i>>].rows])

\* if (ens) payload.walletName = ens; json(res, 200, payload)
RespondTimeline(result) ==
    IF result.threw THEN Json(500, [error |-> result.error])
    ELSE IF Ens # NULL THEN Json(200, ("walletName" :> Ens.s) @@ result.value)
    ELSE Json(200, result.value)

\* Promise.all resolved: the rest of buildMilestones and the response
ContractDerive ==
    /\ pc = "fetching" /\ ~Truthy(walletAddr)
    /\ AllTasksDone
    /\ LET result == buildMilestones(req.chain, ReqContracts, req.artist,
                                     RowsOf("mint"), RowsOf("sale"), RowsOf("meta"))
       IN  /\ milestoneItems' = result.items
           /\ response' = RespondTimeline(result)
    /\ up' = [mintRows |-> RowsOf("mint"), saleRows |-> RowsOf("sale"),
              contractRows |-> RowsOf("meta"), activityRows |-> <<>>]
    /\ pc' = "done"
    /\ UNCHANGED <<req, upstreamVars, classifierVars, peakVars>>

\* fetchWalletActivities returned: lines 546-586, the metadata of the derived
\* contracts is requested
WalletActivityReturned ==
    /\ pc = "fetching" /\ Truthy(walletAddr)
    /\ AllTasksDone
    /\ LET activityRows == tasks[<<"wallet", 1>>].rows
           derivedContracts == DerivedContracts(activityRows)
       IN  /\ up' = [up EXCEPT !.activityRows = activityRows]
           /\ tasks' = [id \in {"meta"} \X (1..Len(derivedContracts)) |->
                           NewTask("meta", derivedContracts[id[2]])] @@ tasks
           /\ calls' = IF Len(derivedContracts) > 0 THEN calls \cup {"metadata"} ELSE calls
    /\ pc' = "metadata"
    /\ UNCHANGED <<req, milestoneItems, response, walletAddr, resolver, classifierVars, peakVars>>

\* fetchContractRows returned: the rest of buildWalletMilestones and the response
WalletDerive ==
    /\ pc = "metadata"
    /\ AllTasksDone
    /\ LET result == buildWalletMilestones(req.chain, walletAddr.s, req.artist,
                                           up.activityRows, RowsOf("meta"))
       IN  /\ milestoneItems' = result.items
           /\ response' = RespondTimeline(result)
    /\ up' = [up EXCEPT !.contractRows = RowsOf("meta")]
    /\ pc' = "done"
    /\ UNCHANGED <<req, upstreamVars, classifierVars, peakVars>>

NextUpstream ==
    \/ ParseRequest
    \/ ResolverResponds
    \/ RejectInvalid
    \/ StartContractFetches
    \/ StartWalletFetch
    \/ TaskReturns
    \/ TaskBacksOff
    \/ TaskRetries
    \/ TaskThrows
    \/ ContractDerive
    \/ WalletActivityReturned
    \/ WalletDerive

SpecUpstream == InitUpstream /\ [][NextUpstream]_vars

(***************************************************************************)
(* Retrieval harness: the retrievals on their own, without the handler     *)
(* above them: the activity fetch of one contract, the activity fetches of *)
(* two contracts side by side as fetchActivities starts them, or the       *)
(* wallet feed, from the first request to the return.  The event loop runs *)
(* every continuation that is ready, and every request that is out is      *)
(* answered (with a body, a failure status or an error).                   *)
(***************************************************************************)
\* a transaction of the wallet feed with nothing but its timestamp
BareTx(h) == "block_timestamp" :> Iso(h)

\* a transaction of the wallet feed without a timestamp
UndatedTx == "hash" :> Str("0xh2")

\* timestamps of fetchWalletActivities: between the two cutoffs and on the
\* provenance cutoff (the feed holds a transaction inside the recent window)
CutoffTimes == {Now - 40 * 24, Now - PROVENANCE_LOOKBACK_DAYS * 24}

\* full pages of the wallet feed that carry a cursor: pages of one
\* transaction repeated, and a page whose first transaction is undated and
\* whose other transactions lie on the recent cutoff
CutoffPages ==
    {[items |-> [i \in 1..WALLET_TX_PAGE_SIZE |-> tx], cursor |-> Str("next")] :
        tx \in {BareTx(h) : h \in CutoffTimes} \cup {UndatedTx}}
      \cup {[items |-> [i \in 1..WALLET_TX_PAGE_SIZE |->
                           IF i = 1 THEN UndatedTx ELSE BareTx(Now - RECENT_WINDOW_DAYS * 24)],
             cursor |-> Str("more")]}

\* the contracts of the retrievals that are followed
RetrievalCases == {<<"mint", 1>>, <<"sale", 1>>, <<"sale", 2>>, <<"wallet", 1>>}

InitRetrieval ==
    /\ \E c \in RetrievalCases :
          LET kind == c[1]
              contracts == IF kind = "wallet" THEN <<>>
                           ELSE SubSeq(<<"0xaaa", "0xbbb">>, 1, c[2])
          IN  /\ req = [contracts |-> contracts,
                        wallet |-> IF kind = "wallet" THEN "0xWWW" ELSE "",
                        chain |-> "ethereum", artist |-> "Artist"]
              /\ walletAddr = IF kind = "wallet" THEN Str("0xwww") ELSE NULL
              /\ tasks = IF kind = "wallet"
                         THEN [id \in {<<"wallet", 1>>} |-> NewTask("wallet", "")]
                         ELSE [id \in {kind} \X (1..Len(contracts)) |->
                                  NewTask(kind, contracts[id[2]])]
              /\ calls = IF kind = "wallet" THEN {"wallet"} ELSE {"activity"}
    /\ up = NoRows
    /\ pc = "retrieving"
    /\ milestoneItems = <<>>
    /\ response = [status |-> 0]
    /\ resolver = <<>>
    /\ event = EmptyObj /\ ret = NoCall
    /\ PeakIdle

\* a full page with a cursor arrives at the wallet feed
WalletPageArrives ==
    /\ \E id \in DOMAIN tasks :
          /\ tasks[id].kind = "wallet" /\ tasks[id].st = "inflight"
          /\ AlliumOutcome(tasks[id].attempt, 200) = "return"
          /\ \E payload \in CutoffPages :
                tasks' = [tasks EXCEPT ![id] = PageReceived(@, payload)]
    /\ UNCHANGED <<req, up, pc, milestoneItems, response, walletAddr, resolver, calls,
                   classifierVars, peakVars>>

NextRetrieval ==
    \/ TaskReturns
    \/ WalletPageArrives
    \/ TaskBacksOff
    \/ TaskRetries
    \/ TaskThrows

SpecRetrieval == InitRetrieval /\ [][NextRetrieval]_vars /\ WF_vars(NextRetrieval)


(***************************************************************************)
(* Claims about the retry loop and the page loops.                         *)
(***************************************************************************)
\* the retrievals that fetch pages of an activity feed
PageTasks == {id \in DOMAIN tasks : tasks[id].kind \in {"mint", "sale", "wallet"}}

\* what holds of every retrieval in every state: attempts 0..3, a delay is
\* running only after a transient status before the fourth attempt, a response
\* with a non-transient failure status or a failure on the fourth attempt has
\* raised the error with that status, and a page retrieval that rejected has
\* ended the request with the 500 response that carries the status
C11_Attempts ==
    \A id \in DOMAIN tasks :
        LET f == tasks[id]
        IN  /\ f.attempt \in 0..3
            /\ f.st = "backoff" => f.resp \in RETRYABLE_STATUSES /\ f.attempt < 3
            /\ (f.resp # 0 /\ ~ResponseOk(f.resp)
                  /\ (f.resp \notin RETRYABLE_STATUSES \/ f.attempt = 3))
                  => f.error = f.resp /\ f.st \notin {"inflight", "backoff"}
            /\ f.error # 0 => f.error = f.resp /\ ~ResponseOk(f.error)
            /\ (id \in PageTasks /\ f.error # 0)
                  => /\ f.st = "threw"
                     /\ pc = "done"
                     /\ response = Json(500, [error |-> AlliumMessage(f.error)])

\* what holds of every step: the request of a page goes out again only when
\* the delay after a transient status is over, a successful response ends the
\* attempts for that page, an error is raised only on a response in flight,
\* and a retrieval that returned or raised issues nothing more
C11_Reissue ==
    \A id \in DOMAIN tasks :
        LET f == tasks[id]
            g == tasks'[id]
        IN  /\ id \in DOMAIN tasks'
            /\ g.attempt > f.attempt
                  => /\ f.st = "backoff" /\ f.resp \in RETRYABLE_STATUSES
                     /\ g.attempt = f.attempt + 1 /\ g.page = f.page /\ g.st = "inflight"
            /\ Len(g.got) > Len(f.got)
                  => /\ f.st = "inflight" /\ g.attempt = 0
                     /\ g.st = "done" \/ (g.st = "inflight" /\ g.page = f.page + 1)
            /\ (g.error # 0 /\ f.error = 0)
                  => /\ f.st = "inflight"
                     /\ g.error \notin RETRYABLE_STATUSES \/ f.attempt = 3
            /\ f.st \in {"done", "threw"} => g = f

\* C11: for each page fetch, under any sequence of upstream responses, the
\* request is issued at most 4 times; it is re-issued only after a response
\* with a transient status (429, 500, 502, 503, 504); the first successful
\* response ends the loop; a non-transient failure status, or a transient one
\* on the fourth attempt, raises an error carrying the status that ends the
\* whole request with an error response and is not retried above the loop.
C11_RetryLoop == [](C11_Attempts) /\ [][C11_Reissue]_vars

\* a page fetch gave up on its fourth transient failure and the request ended
C11_Witness ==
    \E id \in PageTasks :
        /\ tasks[id].st = "threw" /\ tasks[id].attempt = 3
        /\ tasks[id].error \in RETRYABLE_STATUSES
        /\ response.status = 500

\* the page size and the transformed rows of one page of a retrieval
PageSizeOf(f) == IF f.kind = "wallet" THEN WALLET_TX_PAGE_SIZE ELSE CONTRACT_ACTIVITY_PAGE_SIZE

RowsOfPage(f, payload) ==
    IF f.kind = "wallet"
    THEN Flat([i \in 1..Len(payload.items) |-> FlattenTx(payload.items[i])])
    ELSE WithContract(payload.items, f.contract)

\* C12: in every paginated retrieval, a page N with fewer items than the page
\* size is the last one whether or not it carries a next-page cursor: no
\* request for page N+1 is issued, and the retrieval returns exactly the rows
\* of pages 1..N, in the order received.
C12_ShortPageStops ==
    \A id \in PageTasks :
        LET f == tasks[id]
        IN  /\ \A n \in 1..Len(f.got) :
                  Len(f.got[n].items) < PageSizeOf(f)
                      => n = Len(f.got) /\ f.st = "done" /\ f.page = n - 1
            /\ f.st = "done"
                  => f.rows = Flat([n \in 1..Len(f.got) |-> RowsOfPage(f, f.got[n])])

\* a retrieval returned after a full page and a short page that has a cursor
C12_Witness ==
    \E id \in PageTasks :
        LET f == tasks[id]
        IN  /\ f.st = "done" /\ Len(f.got) = 2
            /\ Len(f.got[1].items) = PageSizeOf(f)
            /\ Len(f.got[2].items) \in 1..(PageSizeOf(f) - 1)
            /\ Truthy(f.got[2].cursor)
            /\ Len(f.rows) > 0

\* the page ceiling of a retrieval
MaxPagesOf(f) == IF f.kind = "wallet" THEN MAX_WALLET_TX_PAGES ELSE MAX_CONTRACT_ACTIVITY_PAGES

\* the requests a retrieval has issued so far are at most four per page
\* obtained or being fetched, and the pages at most the ceiling
C23_Bounded ==
    \A id \in PageTasks :
        LET f == tasks[id]
        IN  /\ Len(f.got) <= MaxPagesOf(f)
            /\ f.page < MaxPagesOf(f)
            /\ f.st \in {"inflight", "backoff"} => Len(f.got) = f.page /\ f.page + 1 <= MaxPagesOf(f)
            /\ f.attempt + 1 <= 4

\* C23: every retrieval terminates whatever the upstream returns, an
\* upstream that returns a full page and a non-empty cursor forever included:
\* one contract's activity fetch obtains at most MAX_CONTRACT_ACTIVITY_PAGES
\* pages and the wallet feed at most MAX_WALLET_TX_PAGES pages, with at most 4
\* attempts per page.
C23_RetrievalTerminates ==
    /\ [](C23_Bounded)
    /\ <>(\A id \in PageTasks : tasks[id].st \in {"done", "threw"})

\* a contract's activity fetch ended at the page ceiling on a full page that
\* carried a cursor
C23_Witness ==
    \E id \in PageTasks :
        LET f == tasks[id]
        IN  /\ f.kind = "sale" /\ f.st = "done"
            /\ Len(f.got) = MAX_CONTRACT_ACTIVITY_PAGES
            /\ Len(f.got[Len(f.got)].items) = CONTRACT_ACTIVITY_PAGE_SIZE
            /\ Truthy(f.got[Len(f.got)].cursor)

\* the parseable transaction timestamps of a page of the wallet feed
PageDates(payload) ==
    {parseDate(TxTimestamp(payload.items[i])).n :
        i \in {j \in 1..Len(payload.items) :
                  Truthy(parseDate(TxTimestamp(payload.items[j])))}}

\* the oldest timestamp of a page is at or before a cutoff
OldestAtOrBefore(payload, cutoff) ==
    /\ PageDates(payload) # {}
    /\ (CHOOSE d \in PageDates(payload) : \A e \in PageDates(payload) : d <= e) <= cutoff

FullWithCursor(payload) ==
    Len(payload.items) = WALLET_TX_PAGE_SIZE /\ Truthy(payload.cursor)

\* the early stop that the claim describes for the n-th page of the feed
StopsEarly(payload, n) ==
    \/ OldestAtOrBefore(payload, Now - PROVENANCE_LOOKBACK_DAYS * 24)
    \/ OldestAtOrBefore(payload, Now - RECENT_WINDOW_DAYS * 24) /\ n >= 4

\* C24: after a full page with a non-empty cursor the wallet feed stops
\* without requesting the next page if the oldest transaction timestamp of the
\* page is at or before the provenance cutoff, or at or before the recent
\* cutoff once 4 pages have been fetched; below the page ceiling every other
\* full page with a cursor is followed by the request of the next page: a page
\* at or before the recent cutoff and after the provenance cutoff while fewer
\* than 4 pages have been fetched, and a page with no parseable timestamp.
C24_EarlyStop ==
    \A id \in PageTasks :
        LET f == tasks[id]
        IN  f.kind = "wallet" =>
              \A n \in 1..Len(f.got) :
                  FullWithCursor(f.got[n]) =>
                      IF StopsEarly(f.got[n], n)
                      THEN n = Len(f.got) /\ f.st = "done" /\ f.out = {}
                      ELSE n < MAX_WALLET_TX_PAGES =>
                              \/ n < Len(f.got)
                              \/ f.page = n /\ f.st \in {"inflight", "backoff", "threw"}

\* the feed stopped on its fourth page, a full page with a cursor whose
\* oldest timestamp lies between the cutoffs, after a first page of the same
\* kind and an undated page that did not stop it
C24_Witness ==
    \E id \in PageTasks :
        LET f == tasks[id]
            between(p) == /\ FullWithCursor(p)
                          /\ OldestAtOrBefore(p, Now - RECENT_WINDOW_DAYS * 24)
                          /\ ~OldestAtOrBefore(p, Now - PROVENANCE_LOOKBACK_DAYS * 24)
        IN  /\ f.kind = "wallet" /\ f.st = "done" /\ Len(f.got) = 4
            /\ 4 < MAX_WALLET_TX_PAGES
            /\ between(f.got[4]) /\ between(f.got[1])
            /\ FullWithCursor(f.got[2]) /\ PageDates(f.got[2]) = {}

\* C25: within the wallet feed and within one contract's activity fetch the
\* pages are strictly sequential: at most one page request of a retrieval is
\* in flight at any time, the first request carries no cursor, and the request
\* of page k+1 is out only after the response of page k arrived and carries
\* exactly the cursor that response returned.
C25_Sequential ==
    \A id \in PageTasks :
        LET f == tasks[id]
            k == Len(f.got)
        IN  /\ Cardinality(f.out) <= 1
            /\ f.st = "inflight" <=> f.out # {}
            /\ \A r \in f.out :
                  /\ r.page = k
                  /\ IF k = 0 THEN r.cursor = UNDEF
                     ELSE Truthy(f.got[k].cursor) /\ r.cursor = f.got[k].cursor

\* the fetches of two contracts interleave: both have a request out, the
\* second for its second page while the first tries its first page again
C25_Witness ==
    /\ DOMAIN tasks = {<<"sale", 1>>, <<"sale", 2>>}
    /\ tasks[<<"sale", 1>>].out = {PageRequest(0, NULL)}
    /\ tasks[<<"sale", 1>>].attempt = 1
    /\ tasks[<<"sale", 2>>].out = {PageRequest(1, Str("next"))}
    /\ Len(tasks[<<"sale", 2>>].got) = 1


(***************************************************************************)
(* Claims about failures of the concurrent branches and about rejected     *)
(* requests.                                                               *)
(***************************************************************************)
\* the retrievals of one branch of contract-set mode that failed for good
FailedIn(kinds) == {id \in DOMAIN tasks : tasks[id].kind \in kinds /\ tasks[id].error # 0}

\* the response carries no timeline
NoTimeline == "milestones" \notin DOMAIN response.body /\ milestoneItems = <<>>

\* C13: in contract-set mode, an unrecoverable upstream failure in any of the
\* three concurrent branches (mint activity, sale activity, contract
\* metadata), for any contract, fails the entire derivation: the request ends
\* with an error response and no timeline, never with a result computed from
\* the branches that succeeded.
C13_AnyBranchFailureFailsAll ==
    (pc = "done" /\ ~Truthy(walletAddr) /\ FailedIn({"mint", "sale", "meta"}) # {})
        => response.status >= 400 /\ NoTimeline

\* C13 as the code has it: in contract-set mode an unrecoverable failure of
\* the mint-activity or the sale-activity branch, for any contract, ends the
\* request with an error response and no timeline, whatever the other
\* branches returned, and a timeline is answered only when every mint and sale
\* retrieval returned; an unrecoverable failure of a contract-metadata lookup
\* is caught: the lookup resolves without a row for that contract and the
\* derivation goes on without that contract's metadata.
C13_ActivityFailureFailsAll ==
    ~Truthy(walletAddr) =>
        /\ FailedIn({"mint", "sale"}) # {}
              => /\ pc = "done" /\ response.status = 500 /\ NoTimeline
                 /\ \E id \in FailedIn({"mint", "sale"}) :
                       response.body.error = AlliumMessage(tasks[id].error)
        /\ (pc = "done" /\ response.status = 200)
              => /\ FailedIn({"mint", "sale"}) = {}
                 /\ \A id \in DOMAIN tasks : tasks[id].st = "done"
        /\ \A id \in FailedIn({"meta"}) : tasks[id].st = "done" /\ tasks[id].rows = <<>>

\* the sale retrieval failed after the mint retrieval and the metadata lookup
\* of the same contract had returned their rows
C13_Witness ==
    /\ pc = "done" /\ ~Truthy(walletAddr) /\ response.status = 500
    /\ tasks[<<"sale", 1>>].st = "threw"
    /\ tasks[<<"mint", 1>>].st = "done" /\ Len(tasks[<<"mint", 1>>].rows) > 0
    /\ tasks[<<"meta", 1>>].st = "done" /\ Len(tasks[<<"meta", 1>>].rows) > 0

\* the request has no usable wallet and no valid contract address
NothingUsable == ~Truthy(walletAddr) /\ Len(ReqContracts) = 0

\* C19: a timeline request that supplies neither a usable wallet nor any
\* valid contract address is rejected with the invalid-input (400) response
\* before any outbound network call is made for it, name-resolution calls
\* included.
C19_RejectedBeforeAnyCall ==
    (pc = "done" /\ NothingUsable) => response.status = 400 /\ calls = {}

\* C19 as the code has it: such a request is rejected with the 400 response
\* before any call to the data upstream; when its wallet input is not a .eth
\* name it is rejected before any outbound call at all, and when it is a .eth
\* name the resolver endpoints are asked first and the request is rejected
\* once none of them yielded an address.  No other request is answered 400.
C19_RejectedBeforeDataCall ==
    /\ (pc = "done" /\ NothingUsable)
          => /\ response.status = 400 /\ NoTimeline
             /\ tasks = NoTasks
             /\ calls = IF EndsWithEth(WalletInput) THEN {"resolver"} ELSE {}
    /\ response.status = 400 => pc = "done" /\ NothingUsable

\* a .eth name that no endpoint resolved, without contracts: rejected after
\* the resolver calls
C19_Witness ==
    /\ pc = "done" /\ response.status = 400
    /\ EndsWithEth(WalletInput) /\ calls = {"resolver"}

\* C20: when the wallet input is a .eth name and no resolver endpoint yields
\* a well-formed address, the request fails with a user-input error: no
\* timeline is derived, no upstream activity fetch is issued, and the
\* response carries no timeline payload.
C20_UnresolvedNameFails ==
    (Ens # NULL /\ pc \notin {"start", "resolving"} /\ ~Truthy(walletAddr))
        => /\ tasks = NoTasks
           /\ calls \subseteq {"resolver"}
           /\ pc = "done" => response.status = 400 /\ NoTimeline


WellFormedAddress(v) == v.t = "str" /\ LowerAddress(v.s) \in HexAddresses

\* the value resolveEnsName looks at in a body: the first of the three
\* fields that holds a non-empty value
Candidate(data) ==
    IF Truthy(Get(data, "address")) THEN Get(data, "address")
    ELSE IF Truthy(Get(data, "addr")) THEN Get(data, "addr")
    ELSE Get(data, "resolver_address")

\* the endpoint answered with a 2xx response that holds a well-formed address
Yields(a) == ~a.threw /\ a.status \in 200..299 /\ WellFormedAddress(Candidate(a.data))

\* C21: name resolution calls the resolver endpoints in their fixed order,
\* each at most once per request; a thrown error, a non-2xx response or a
\* response without a well-formed address moves on to the next endpoint;
\* resolution stops at the first endpoint that yields a well-formed address
\* and returns it, so no later endpoint is called; and when the wallet input
\* is already a well-formed address no resolver endpoint is called at all.
C21_ResolverOrder ==
    /\ Len(resolver) <= Len(ResolverEndpoints)
    /\ \A i \in 1..Len(resolver) :
          /\ resolver[i].endpoint = ResolverEndpoints[i]
          /\ i < Len(resolver) => resolver[i].answer # Pending /\ ~Yields(resolver[i].answer)
    /\ pc = "resolving" => resolver # <<>> /\ resolver[Len(resolver)].answer = Pending
    /\ (pc = "resolved" /\ resolver # <<>>) =>
          LET last == resolver[Len(resolver)].answer
          IN  /\ last # Pending
              /\ IF Yields(last)
                 THEN walletAddr = Str(LowerAddress(Candidate(last.data).s))
                 ELSE Len(resolver) = Len(ResolverEndpoints) /\ walletAddr = NULL
    /\ pc \notin {"resolving", "resolved"} => resolver = <<>>
    /\ WellFormedAddress(Str(WalletInput)) => resolver = <<>> /\ "resolver" \notin calls
    /\ (pc # "start" /\ Ens # NULL) => "resolver" \in calls

\* the first endpoint answered 200 without an address and the second one
\* yielded the address
C21_Witness ==
    /\ pc = "resolved" /\ Len(resolver) = 2
    /\ resolver[1].answer.status = 200 /\ ~Yields(resolver[1].answer)
    /\ Yields(resolver[2].answer) /\ Truthy(walletAddr)


(***************************************************************************)
(* Claims about requests that name a wallet and contracts.                 *)
(***************************************************************************)
\* the row is dated inside the recent window
DatedInWindow(row) ==
    /\ Truthy(eventTimestamp(row))
    /\ eventTimestamp(row).n >= Now - RECENT_WINDOW_DAYS * 24

\* the positions of the in-window rows of the wallet activity that name
\* contract address a
InWindowAt(a) ==
    {i \in 1..Len(up.activityRows) :
        /\ DatedInWindow(up.activityRows[i])
        /\ contractAddressFromEvent(up.activityRows[i]) = Str(a)}

FirstSeen(a) == CHOOSE i \in InWindowAt(a) : \A j \in InWindowAt(a) : i <= j

\* C29: a request with a usable wallet and explicit contract addresses is
\* served in wallet mode: the per-contract activity fetch of the explicit
\* contracts is not made, and the contracts of the result are exactly the
\* distinct contract addresses of the wallet activity records dated inside the
\* recent window, in first-seen order, whatever the explicit list is.
C29_WalletModeWins ==
    (Truthy(ReqWallet) /\ Len(ReqContracts) > 0) =>
        /\ pc # "contract_rows"
        /\ up.mintRows = <<>> /\ up.saleRows = <<>>
        /\ pc = "done" =>
              /\ response.status = 200
              /\ response.body.wallet = "0xwww"
              /\ LET contracts == response.body.contracts
                 IN  /\ \A i \in 1..Len(contracts) : InWindowAt(contracts[i]) # {}
                     /\ \A r \in 1..Len(up.activityRows) :
                           (/\ DatedInWindow(up.activityRows[r])
                            /\ Truthy(contractAddressFromEvent(up.activityRows[r])))
                             => \E i \in 1..Len(contracts) :
                                   r \in InWindowAt(contracts[i])
                     /\ \A i, j \in 1..Len(contracts) :
                           i < j => /\ contracts[i] # contracts[j]
                                    /\ FirstSeen(contracts[i]) < FirstSeen(contracts[j])

\* the wallet was active on the explicit contract before the window only:
\* the result names the other contract and not the explicit one
C29_Witness ==
    /\ Truthy(ReqWallet) /\ ReqContracts = <<"0xbbb">>
    /\ pc = "done" /\ response.status = 200
    /\ response.body.contracts = <<"0xaaa">>
    /\ \E r \in 1..Len(up.activityRows) :
          contractAddressFromEvent(up.activityRows[r]) = Str("0xbbb")
====
